---------------------------- MODULE Spec2Model ----------------------------
(***************************************************************************)
(* A model of the trade-bot back end: the trade ledger (TradingCore), the  *)
(* backtest loop (BacktestingService.runBacktest) and the live session     *)
(* manager (LiveTradingService) with its streaming connections, reconnect  *)
(* timers and per-session snapshots.                                       *)
(*                                                                         *)
(* JavaScript numbers are modelled as exact rationals [n, d] in lowest     *)
(* terms (d > 0); every program value in the explored domain is a rational *)
(* with a small denominator, so no rounding takes place.                   *)
(***************************************************************************)
EXTENDS Integers, Sequences, FiniteSets, Bags, TLC

VARIABLES
    core,      \* a bare TradingCore instance driven through executeEntry/executeExit
    okOps,     \* history: the successful calls on core, in order
    obs,       \* history: the last call made (operation, arguments, outcome)
    live,      \* the LiveTradingService instance, its sockets and pending timers
    bt,        \* the BacktestingService instance and the position of its loop
    feed       \* the candles handed to runBacktest / streamed to the live session

vars == <<core, okOps, obs, live, bt, feed>>

(***************************************************************************)
(* Exact arithmetic                                                        *)
(***************************************************************************)
Abs(x) == IF x < 0 THEN -x ELSE x

RECURSIVE GCD(_, _)
GCD(a, b) == IF b = 0 THEN a ELSE GCD(b, a % b)

\* n/d in lowest terms; x/0 is kept as the sign of x over 0 (Infinity, NaN)
Norm(n, d) ==
    IF d = 0 THEN [n |-> IF n > 0 THEN 1 ELSE IF n < 0 THEN -1 ELSE 0, d |-> 0]
    ELSE LET s == IF d < 0 THEN -1 ELSE 1
             g == GCD(Abs(n), Abs(d))
         IN  [n |-> (s * n) \div g, d |-> (s * d) \div g]

R(i) == [n |-> i, d |-> 1]
\* the common factor of two denominators (1 when one of them is 0)
DenGcd(a, b) == IF a.d = 0 \/ b.d = 0 THEN 1 ELSE GCD(a.d, b.d)
RAdd(a, b) ==
    LET g == DenGcd(a, b)
    IN  Norm(a.n * (b.d \div g) + b.n * (a.d \div g), (a.d \div g) * b.d)
RSub(a, b) ==
    LET g == DenGcd(a, b)
    IN  Norm(a.n * (b.d \div g) - b.n * (a.d \div g), (a.d \div g) * b.d)
RMul(a, b) ==
    LET g1 == GCD(Abs(a.n), b.d)
        g2 == GCD(Abs(b.n), a.d)
        h1 == IF g1 = 0 THEN 1 ELSE g1
        h2 == IF g2 = 0 THEN 1 ELSE g2
    IN  Norm((a.n \div h1) * (b.n \div h2), (a.d \div h2) * (b.d \div h1))
RDiv(a, b) ==
    IF b.n = 0 THEN Norm(a.n, 0)
    ELSE RMul(a, IF b.n < 0 THEN [n |-> -b.d, d |-> -b.n] ELSE [n |-> b.d, d |-> b.n])
RLt(a, b) ==
    LET g == DenGcd(a, b) IN a.n * (b.d \div g) < b.n * (a.d \div g)
RLe(a, b) ==
    LET g == DenGcd(a, b) IN a.n * (b.d \div g) <= b.n * (a.d \div g)
RGt(a, b) == RLt(b, a)
RGe(a, b) == RLe(b, a)
RMin(a, b) == IF RLe(a, b) THEN a ELSE b
RMax(a, b) == IF RGe(a, b) THEN a ELSE b

(***************************************************************************)
(* TradingCore: the ledger                                                 *)
(***************************************************************************)
FlatPosition ==
    [inPosition |-> FALSE, entryPrice |-> R(0), quantity |-> R(0), side |-> "long"]

\* constructor(initialBalance)
NewCore(initialBalance) ==
    [initialBalance |-> initialBalance,
     currentBalance |-> initialBalance,
     trades         |-> << >>,
     equity         |-> << initialBalance >>,
     drawdowns      |-> << R(0) >>,
     position       |-> FlatPosition]

\* The outcome of a call that may throw: the state it leaves and the error
Ok(st) == [st |-> st, err |-> "none"]
Throw(st, msg) == [st |-> st, err |-> msg]

\* executeEntry without its guard
ExecuteEntryUnguarded(c, timestamp, price, quantity) ==
    Ok([c EXCEPT !.position =
            [inPosition |-> TRUE, entryPrice |-> price,
             quantity |-> quantity, side |-> "long"]])

\* executeEntry that touches the balance before it throws
ExecuteEntryDirty(c, timestamp, price, quantity) ==
    IF c.position.inPosition
    THEN Throw([c EXCEPT !.currentBalance = RSub(c.currentBalance, RMul(price, quantity))],
               "Already in position")
    ELSE ExecuteEntryUnguarded(c, timestamp, price, quantity)

ExecuteEntry(c, timestamp, price, quantity) ==
    IF c.position.inPosition
    THEN Throw(c, "Already in position")
    ELSE Ok([c EXCEPT !.position =
                [inPosition |-> TRUE, entryPrice |-> price,
                 quantity |-> quantity, side |-> "long"]])

\* the trade record executeExit pushes
ClosedTrade(c, timestamp, price) ==
    LET profit == RMul(RSub(price, c.position.entryPrice), c.position.quantity)
    IN  [entryTime  |-> timestamp,
         exitTime   |-> timestamp,
         entryPrice |-> c.position.entryPrice,
         exitPrice  |-> price,
         quantity   |-> c.position.quantity,
         profit     |-> profit,
         profitPercentage |->
             RMul(RDiv(profit, RMul(c.position.entryPrice, c.position.quantity)),
                  R(100)),
         type       |-> c.position.side]

\* executeExit that appends a trade even when there is no position
ExecuteExitUnguarded(c, timestamp, price) ==
    LET t == ClosedTrade(c, timestamp, price)
    IN  Ok([c EXCEPT !.currentBalance = RAdd(c.currentBalance, t.profit),
                     !.trades = Append(c.trades, t),
                     !.position = FlatPosition])

\* executeExit that books the exit price instead of the profit
ExecuteExitWrongProfit(c, timestamp, price) ==
    IF ~c.position.inPosition
    THEN Throw(c, "Not in position")
    ELSE LET t == ClosedTrade(c, timestamp, price)
         IN  Ok([c EXCEPT !.currentBalance =
                              RAdd(c.currentBalance, RMul(price, c.position.quantity)),
                          !.trades = Append(c.trades, t),
                          !.position = FlatPosition])

ExecuteExit(c, timestamp, price) ==
    IF ~c.position.inPosition
    THEN Throw(c, "Not in position")
    ELSE LET t == ClosedTrade(c, timestamp, price)
         IN  Ok([c EXCEPT !.currentBalance = RAdd(c.currentBalance, t.profit),
                          !.trades = Append(c.trades, t),
                          !.position = FlatPosition])


(***************************************************************************)
(* Bounds and inputs of the ledger specification                           *)
(***************************************************************************)
DefaultBalance == 10000
MaxLedgerCalls == 5
LedgerPrices == {2, 3}
LedgerQuantities == {1, 2}

\* Placeholders of the parts a specification does not drive
Idle == [phase |-> "idle"]

(***************************************************************************)
(* SpecLedger: direct calls on a TradingCore                               *)
(***************************************************************************)
InitLedger ==
    /\ core = NewCore(R(DefaultBalance))
    /\ okOps = << >>
    /\ obs = [op |-> "new", n |-> 0]
    /\ live = Idle
    /\ bt = Idle
    /\ feed = << >>

CallExecuteEntry ==
    /\ obs.n < MaxLedgerCalls
    /\ \E p \in LedgerPrices, q \in LedgerQuantities :
         LET r == ExecuteEntry(core, obs.n + 1, R(p), R(q))
         IN  /\ core' = r.st
             /\ okOps' = IF r.err = "none" THEN Append(okOps, "entry") ELSE okOps
             /\ obs' = [op |-> "executeEntry", n |-> obs.n + 1, pre |-> core,
                        price |-> p, quantity |-> q, err |-> r.err]
    /\ UNCHANGED <<live, bt, feed>>

CallExecuteExit ==
    /\ obs.n < MaxLedgerCalls
    /\ \E p \in LedgerPrices :
         LET r == ExecuteExit(core, obs.n + 1, R(p))
         IN  /\ core' = r.st
             /\ okOps' = IF r.err = "none" THEN Append(okOps, "exit") ELSE okOps
             /\ obs' = [op |-> "executeExit", n |-> obs.n + 1, pre |-> core,
                        price |-> p, quantity |-> 0, err |-> r.err]
    /\ UNCHANGED <<live, bt, feed>>

NextLedger == CallExecuteEntry \/ CallExecuteExit

SpecLedger == InitLedger /\ [][NextLedger]_vars

(***************************************************************************)
(* Claims about the ledger                                                 *)
(***************************************************************************)
Exits(ops) == {i \in 1..Len(ops) : ops[i] = "exit"}

\* C1: at most one position is open: the successful entries and exits
\* strictly alternate, starting with an entry, the ledger is Open exactly
\* after an unanswered entry, and the trade log holds one closed trade per
\* successful exit.
C1_EntriesAndExitsAlternate ==
    /\ \A i \in 1..Len(okOps) : okOps[i] = (IF i % 2 = 1 THEN "entry" ELSE "exit")
    /\ core.position.inPosition <=> (Len(okOps) % 2 = 1)
    /\ Len(core.trades) = Cardinality(Exits(okOps))

C1_Witness ==
    /\ Len(okOps) = 4
    /\ Len(core.trades) = 2
    /\ obs.n = MaxLedgerCalls
    /\ obs.err # "none"

\* C2: executeEntry on an Open ledger throws 'Already in position' and
\* leaves position, balance and trade log as they were.
C2_EntryWhileOpenRejected ==
    (obs.op = "executeEntry" /\ obs.pre.position.inPosition) =>
        /\ obs.err = "Already in position"
        /\ core.position = obs.pre.position
        /\ core.currentBalance = obs.pre.currentBalance
        /\ core.trades = obs.pre.trades

C2_Witness ==
    /\ obs.op = "executeEntry"
    /\ obs.pre.position.inPosition
    /\ obs.err = "Already in position"
    /\ R(obs.price) # core.position.entryPrice
    /\ Len(core.trades) = 1

\* C3: executeExit on a Flat ledger throws 'Not in position' and leaves
\* balance, position and trade log as they were: no trade is appended.
C3_ExitWhileFlatRejected ==
    (obs.op = "executeExit" /\ ~obs.pre.position.inPosition) =>
        /\ obs.err = "Not in position"
        /\ core.position = obs.pre.position
        /\ core.currentBalance = obs.pre.currentBalance
        /\ core.trades = obs.pre.trades

C3_Witness ==
    /\ obs.op = "executeExit"
    /\ ~obs.pre.position.inPosition
    /\ obs.err = "Not in position"
    /\ Len(core.trades) = 1

\* C4: a successful executeExit(time, price) on an Open long position with
\* entry price E and quantity q appends exactly one trade with
\* profit = (price - E) * q and profitPercentage = profit / (E * q) * 100,
\* adds exactly that profit to the balance and returns the ledger to Flat;
\* the earlier trades are untouched.
C4_ExitBooksProfit ==
    (obs.op = "executeExit" /\ obs.pre.position.inPosition
        /\ obs.pre.position.side = "long") =>
        LET E == obs.pre.position.entryPrice.n
            q == obs.pre.position.quantity.n
            profit == (obs.price - E) * q
            k == Len(obs.pre.trades)
            t == core.trades[k + 1]
        IN  /\ obs.err = "none"
            /\ Len(core.trades) = k + 1
            /\ SubSeq(core.trades, 1, k) = obs.pre.trades
            /\ t.profit = R(profit)
            /\ t.profitPercentage.d > 0
            /\ t.profitPercentage.n * (E * q) = profit * 100 * t.profitPercentage.d
            /\ t.entryPrice = R(E) /\ t.exitPrice = R(obs.price) /\ t.quantity = R(q)
            /\ core.currentBalance.d = 1
            /\ core.currentBalance.n = obs.pre.currentBalance.n + profit
            /\ core.position = FlatPosition

C4_Witness ==
    /\ obs.op = "executeExit"
    /\ obs.pre.position.inPosition
    /\ obs.err = "none"
    /\ Len(core.trades) = 2
    /\ RLt(core.trades[2].profit, R(0))
    /\ RGt(core.trades[1].profit, R(0))


(***************************************************************************)
(* Strategies, candles and indicator readings                              *)
(***************************************************************************)
\* JavaScript's undefined, where a number is expected
Undef == [n |-> 0, d |-> -1]
IsDef(x) == x.d # -1

Cond(ind, cmp, val) ==
    [indicator |-> ind, comparison |-> cmp, value |-> val, targetIndicator |-> "none"]
CondOn(ind, cmp, target) ==
    [indicator |-> ind, comparison |-> cmp, value |-> 0, targetIndicator |-> target]

\* The strategy store (StrategyManager.strategies): each strategy declares
\* one SMA indicator named "sma"; stop-loss 2 %, take-profit 4 % and a
\* maximum position size of 100 % as in the repository's test strategy.
\* strat_3 and strat_4 are strat_1 with a maximum position size of 25 % and
\* of 0 %; strat_5 enters when the price crosses above its SMA(2).
Risk == [stopLoss |-> 2, takeProfit |-> 4, maxPositionSize |-> 100]
StrategyStore ==
    [strat_1 |->
        [id |-> "strat_1", period |-> 1,
         entryConditions |-> << Cond("sma", "below", 101) >>,
         exitConditions  |-> << Cond("sma", "above", 103) >>,
         riskManagement  |-> Risk],
     strat_2 |->
        [id |-> "strat_2", period |-> 2,
         entryConditions |-> << Cond("sma", "crosses_below", 100) >>,
         exitConditions  |-> << CondOn("price", "crosses_above", "sma") >>,
         riskManagement  |-> Risk],
     strat_3 |->
        [id |-> "strat_3", period |-> 1,
         entryConditions |-> << Cond("sma", "below", 101) >>,
         exitConditions  |-> << Cond("sma", "above", 103) >>,
         riskManagement  |-> [Risk EXCEPT !.maxPositionSize = 25]],
     strat_4 |->
        [id |-> "strat_4", period |-> 1,
         entryConditions |-> << Cond("sma", "below", 101) >>,
         exitConditions  |-> << Cond("sma", "above", 103) >>,
         riskManagement  |-> [Risk EXCEPT !.maxPositionSize = 0]],
     strat_5 |->
        [id |-> "strat_5", period |-> 2,
         entryConditions |-> << CondOn("price", "crosses_above", "sma") >>,
         exitConditions  |-> << Cond("sma", "above", 103) >>,
         riskManagement  |-> Risk]]
StrategyIds == DOMAIN StrategyStore

\* strategyManager.getStrategy(id): the strategy, or undefined
NoStrategy == [id |-> "none"]
GetStrategy(id) == IF id \in StrategyIds THEN StrategyStore[id] ELSE NoStrategy

\* A candle (KlineData): low <= close <= high
Candle(l, h, c) == [low |-> l, high |-> h, close |-> c]

RECURSIVE SumCloses(_, _, _)
SumCloses(klines, from, to) ==
    IF from > to THEN 0 ELSE klines[from].close + SumCloses(klines, from + 1, to)

\* The last value of TechnicalIndicators.calculateSMA(klines, period): the
\* mean of the last `period` closes (toFixed(8) leaves a value with
\* denominator 1 or 2 as it is)
LastSMA(klines, period) ==
    RDiv(R(SumCloses(klines, Len(klines) - period + 1, Len(klines))), R(period))

\* LiveTradingService.calculateIndicators: price and the declared SMA, read
\* through getIndicatorValue ({value: x} yields x).  It throws when the
\* window is shorter than the period.
CalculateIndicators(klines, strategy) ==
    IF Len(klines) < strategy.period
    THEN Throw([price |-> Undef, sma |-> Undef], "Insufficient data for SMA calculation")
    ELSE Ok([price |-> R(klines[Len(klines)].close),
             sma   |-> LastSMA(klines, strategy.period)])

\* LiveTradingService.getIndicatorValue
GetIndicatorValue(indicator, context) ==
    IF indicator \in DOMAIN context THEN context[indicator] ELSE Undef

\* LiveTradingService.evaluateCondition
EvaluateCondition(condition, currentValue, targetValue, previousValue, previousTargetValue) ==
    CASE condition.comparison = "above" -> RGt(currentValue, targetValue)
      [] condition.comparison = "below" -> RLt(currentValue, targetValue)
      [] condition.comparison = "crosses_above" ->
            /\ IsDef(previousValue)
            /\ IsDef(previousTargetValue)
            /\ RLe(previousValue, previousTargetValue)
            /\ RGt(currentValue, targetValue)
      [] condition.comparison = "crosses_below" ->
            /\ IsDef(previousValue)
            /\ IsDef(previousTargetValue)
            /\ RGe(previousValue, previousTargetValue)
            /\ RLt(currentValue, targetValue)
      [] OTHER -> FALSE

\* The callback processTradeLogic passes to exitConditions.some and to
\* entryConditions.every
ConditionHolds(condition, currentIndicators, previousIndicators) ==
    LET currentValue == GetIndicatorValue(condition.indicator, currentIndicators)
        targetValue ==
            IF condition.targetIndicator # "none"
            THEN GetIndicatorValue(condition.targetIndicator, currentIndicators)
            ELSE R(condition.value)
        previousValue == GetIndicatorValue(condition.indicator, previousIndicators)
        previousTargetValue ==
            IF condition.targetIndicator # "none"
            THEN GetIndicatorValue(condition.targetIndicator, previousIndicators)
            ELSE Undef
    IN  /\ IsDef(currentValue)
        /\ IsDef(targetValue)
        /\ EvaluateCondition(condition, currentValue, targetValue,
                             previousValue, previousTargetValue)

PositionSizeUncapped(balance, close, risk) ==
    RDiv(RDiv(balance, R(100)),
         RSub(close, RMul(close, RSub(R(1), RDiv(R(risk.stopLoss), R(100))))))

\* Position sizing, shared by both drive loops: 1 % of the balance at risk,
\* capped by balance * maxPositionSize / 100 / close (here with the exact
\* quotient maxPositionSize / 100 taken first, which keeps the integers small)
PositionSize(balance, close, risk) ==
    LET stopLossPrice == RMul(close, RSub(R(1), RDiv(R(risk.stopLoss), R(100))))
        riskPerTrade == RDiv(balance, R(100))
        riskPerUnit == RSub(close, stopLossPrice)
    IN  RMin(RDiv(riskPerTrade, riskPerUnit),
             RDiv(RMul(balance, RDiv(R(risk.maxPositionSize), R(100))), close))

StopLossPrice(entryPrice, risk) ==
    RMul(entryPrice, RSub(R(1), RDiv(R(risk.stopLoss), R(100))))
TakeProfitPrice(entryPrice, risk) ==
    RMul(entryPrice, RAdd(R(1), RDiv(R(risk.takeProfit), R(100))))


(***************************************************************************)
(* LiveTradingService                                                      *)
(*                                                                         *)
(* `live` holds the fields of the service (the ledger it inherits from     *)
(* TradingCore among them), the WebSocket objects setupWebSocket created   *)
(* (sockets, by creation order) and the callbacks the event loop holds     *)
(* (timers).  pingIntervals is never written by the service and is left    *)
(* out; symbol, startTime and runningTimeMs only label a session.          *)
(***************************************************************************)
MAX_PRICES == 100
MIN_KLINES == 50
MAX_RECONNECT_ATTEMPTS == 5
RECONNECT_DELAY == 5000
MAX_RECONNECT_DELAY == 60000
MESSAGE_WINDOW == 1000
MAX_MESSAGES_PER_SECOND == 5
MAX_CONNECTIONS == 300
CONNECTION_WINDOW == 5 * 60 * 1000

\* The ids startLiveTrade hands out, `${strategyId}-${Date.now()}`: none is
\* the id of a strategy
TradeIds == {"tradeId_1", "tradeId_2"}

NoTrade == [status |-> "none"]
HasTrade(L, id) == id \in TradeIds /\ L.liveTrades[id].status # "none"

NewLive(initialBalance) ==
    [ledger             |-> NewCore(initialBalance),
     liveTrades         |-> [t \in TradeIds |-> NoTrade],
     websockets         |-> [t \in TradeIds |-> 0],
     messageRateLimiter |-> [t \in TradeIds |-> << >>],
     connectionAttempts |-> << >>,
     reconnectAttempts  |-> [t \in TradeIds |-> 0],
     sockets            |-> << >>,
     timers             |-> EmptyBag,
     now                |-> 0]

RECURSIVE MaxDrawdownFrom(_, _, _, _, _)
MaxDrawdownFrom(trades, i, peak, runningBalance, maxDrawdown) ==
    IF i > Len(trades) THEN maxDrawdown
    ELSE LET running == RAdd(runningBalance, trades[i].profit)
             pk == IF RGt(running, peak) THEN running ELSE peak
             drawdown == RMul(RDiv(RSub(pk, running), pk), R(100))
         IN  MaxDrawdownFrom(trades, i + 1, pk, running,
                             IF RGt(drawdown, maxDrawdown) THEN drawdown ELSE maxDrawdown)

\* TradingCore.getMetrics, the fields updateTradeStatus copies
GetMetrics(c) ==
    [totalTrades   |-> Len(c.trades),
     winningTrades |-> Cardinality({i \in 1..Len(c.trades) : RGt(c.trades[i].profit, R(0))}),
     losingTrades  |-> Cardinality({i \in 1..Len(c.trades) : RLt(c.trades[i].profit, R(0))}),
     totalProfit   |-> RSub(c.currentBalance, c.initialBalance),
     maxDrawdown   |-> MaxDrawdownFrom(c.trades, 1, c.initialBalance, c.initialBalance, R(0))]

\* updateTradeStatus(tradeId): looks the session up by the id it is given
UpdateTradeStatus(L, id) ==
    IF ~HasTrade(L, id) THEN L
    ELSE [L EXCEPT !.liveTrades[id] =
             [@ EXCEPT !.performance = GetMetrics(L.ledger),
                       !.currentBalance = L.ledger.currentBalance,
                       !.position = L.ledger.position]]

\* isRateLimited(tradeId): a dropped message is not recorded
RecentMessages(L, t) ==
    SelectSeq(L.messageRateLimiter[t], LAMBDA time : L.now - time < MESSAGE_WINDOW)
IsRateLimitedNeverPruned(L, t) == Len(L.messageRateLimiter[t]) >= MAX_MESSAGES_PER_SECOND
IsRateLimited(L, t) == Len(RecentMessages(L, t)) >= MAX_MESSAGES_PER_SECOND
RecordMessage(L, t) ==
    [L EXCEPT !.messageRateLimiter[t] = Append(RecentMessages(L, t), L.now)]

\* setupWebSocket: the connection budget, then a new WebSocket whose
\* handlers are bound to tradeId; its id is its place in sockets
SetupWebSocketRecordsFirst(L, t) ==
    IF Len(L.connectionAttempts) >= MAX_CONNECTIONS
    THEN Throw([L EXCEPT !.connectionAttempts = Append(@, L.now)],
               "Connection limit exceeded")
    ELSE Ok([L EXCEPT !.connectionAttempts = Append(@, L.now),
                      !.sockets = Append(@, [trade |-> t, state |-> "open",
                                             erred |-> FALSE])])

SetupWebSocket(L, t) ==
    IF Len(L.connectionAttempts) >= MAX_CONNECTIONS
    THEN Throw(L, "Connection limit exceeded")
    ELSE Ok([L EXCEPT !.connectionAttempts = Append(@, L.now),
                      !.sockets = Append(@, [trade |-> t, state |-> "open",
                                             erred |-> FALSE])])

RECURSIVE Pow2(_)
Pow2(k) == IF k = 0 THEN 1 ELSE 2 * Pow2(k - 1)

ReconnectDelayFor(attempt) ==
    IF RECONNECT_DELAY * Pow2(attempt) < MAX_RECONNECT_DELAY
    THEN RECONNECT_DELAY * Pow2(attempt) ELSE MAX_RECONNECT_DELAY

\* handleReconnection: counts the attempt and arms the reconnect timer
HandleReconnection(L, t) ==
    LET currentAttempt == L.reconnectAttempts[t]
        delay == ReconnectDelayFor(currentAttempt)
    IN  [L EXCEPT !.reconnectAttempts[t] = currentAttempt + 1,
                  !.timers = @ (+) SetToBag({[trade |-> t, kind |-> "reconnect",
                                              due |-> L.now + delay]})]

\* processTradeLogic, the decision on a closed candle
ShouldExit(position, close, strategy, cur, prev) ==
    \/ RLe(close, StopLossPrice(position.entryPrice, strategy.riskManagement))
    \/ RGe(close, TakeProfitPrice(position.entryPrice, strategy.riskManagement))
    \/ \E i \in 1..Len(strategy.exitConditions) :
           ConditionHolds(strategy.exitConditions[i], cur, prev)

ShouldEnter(strategy, cur, prev) ==
    \A i \in 1..Len(strategy.entryConditions) :
        ConditionHolds(strategy.entryConditions[i], cur, prev)

ProcessTradeLogic(L, t, klineData, strategy) ==
    LET trade == L.liveTrades[t]
        calc == CalculateIndicators(trade.klines, strategy)
        cur == calc.st
        prev == trade.currentIndicators
        L1 == [L EXCEPT !.liveTrades[t].previousIndicators = prev,
                        !.liveTrades[t].currentIndicators = cur]
        close == R(klineData.close)
        quantity == PositionSize(L1.ledger.currentBalance, close, strategy.riskManagement)
        exit == ExecuteExit(L1.ledger, L.now, close)
        entry == ExecuteEntry(L1.ledger, L.now, close, quantity)
        Caught(LL, msg) == [LL EXCEPT !.liveTrades[t].lastError = msg]
    IN  IF calc.err # "none" THEN Caught(L, calc.err)
        ELSE IF L1.ledger.position.inPosition
        THEN IF ShouldExit(L1.ledger.position, close, strategy, cur, prev)
             THEN IF exit.err # "none" THEN Caught(L1, exit.err)
                  ELSE UpdateTradeStatus([L1 EXCEPT !.ledger = exit.st], trade.strategyId)
             ELSE L1
        ELSE IF ShouldEnter(strategy, cur, prev) /\ RGt(quantity, R(0))
             THEN IF entry.err # "none" THEN Caught(L1, entry.err)
                  ELSE UpdateTradeStatus([L1 EXCEPT !.ledger = entry.st], trade.strategyId)
             ELSE L1


OnMessageIgnoresStatus(L, w, msg) ==
    LET t == L.sockets[w].trade
        L0 == RecordMessage(L, t)
        trade == L0.liveTrades[t]
        strategy == GetStrategy(trade.strategy)
        pushed == Append(trade.klines, msg.candle)
        klines == IF Len(pushed) > MAX_PRICES THEN Tail(pushed) ELSE pushed
        L1 == [L0 EXCEPT !.liveTrades[t].klines = klines]
        tempKlines == [trade.klines EXCEPT ![Len(trade.klines)] = msg.candle]
        calc == CalculateIndicators(tempKlines, strategy)
    IN  IF IsRateLimited(L, t) THEN L
        ELSE IF msg.kind # "kline" THEN L0
        ELSE IF ~HasTrade(L0, t) THEN L0
        ELSE IF strategy.id = "none" THEN L0
        ELSE IF msg.closed
        THEN IF Len(klines) >= MIN_KLINES
             THEN ProcessTradeLogic(L1, t, msg.candle, strategy)
             ELSE L1
        ELSE IF Len(trade.klines) > 0 /\ Len(tempKlines) >= MIN_KLINES /\ calc.err = "none"
             THEN [L0 EXCEPT !.liveTrades[t].currentIndicators = calc.st]
             ELSE L0

OnMessageInterimDecides(L, w, msg) ==
    LET t == L.sockets[w].trade
        L0 == RecordMessage(L, t)
        trade == L0.liveTrades[t]
        strategy == GetStrategy(trade.strategy)
        pushed == Append(trade.klines, msg.candle)
        klines == IF Len(pushed) > MAX_PRICES THEN Tail(pushed) ELSE pushed
        L1 == [L0 EXCEPT !.liveTrades[t].klines = klines]
    IN  IF IsRateLimited(L, t) THEN L
        ELSE IF msg.kind # "kline" THEN L0
        ELSE IF trade.status # "running" THEN L0
        ELSE IF strategy.id = "none" THEN L0
        ELSE IF Len(klines) >= MIN_KLINES
        THEN ProcessTradeLogic(L1, t, msg.candle, strategy)
        ELSE L1

\* ws.on('message'): rate limit, parse, then the kline branch.  An
\* acknowledgement (result: null), a message without data, one that cannot
\* be parsed and an event of another stream all end the handler after the
\* rate limiter; a throw inside the handler is caught and logged.
OnMessageRecordsDropped(L, w, msg) == RecordMessage(L, L.sockets[w].trade)

OnMessage(L, w, msg) ==
    LET t == L.sockets[w].trade
        L0 == RecordMessage(L, t)
        trade == L0.liveTrades[t]
        strategy == GetStrategy(trade.strategy)
        pushed == Append(trade.klines, msg.candle)
        klines == IF Len(pushed) > MAX_PRICES THEN Tail(pushed) ELSE pushed
        L1 == [L0 EXCEPT !.liveTrades[t].klines = klines]
        tempKlines == [trade.klines EXCEPT ![Len(trade.klines)] = msg.candle]
        calc == CalculateIndicators(tempKlines, strategy)
    IN  IF IsRateLimited(L, t) THEN L
        ELSE IF msg.kind # "kline" THEN L0
        ELSE IF trade.status # "running" THEN L0
        ELSE IF strategy.id = "none" THEN L0
        ELSE IF msg.closed
        THEN IF Len(klines) >= MIN_KLINES
             THEN ProcessTradeLogic(L1, t, msg.candle, strategy)
             ELSE L1
        ELSE IF Len(trade.klines) > 0 /\ Len(tempKlines) >= MIN_KLINES /\ calc.err = "none"
             THEN [L0 EXCEPT !.liveTrades[t].currentIndicators = calc.st]
             ELSE L0

\* ws.on('error'): records the error and always asks for a reconnection
OnError(L, w) ==
    LET t == L.sockets[w].trade
        L1 == [L EXCEPT !.sockets[w].erred = TRUE]
        L2 == IF HasTrade(L1, t)
              THEN [L1 EXCEPT !.liveTrades[t].lastError = "WebSocket error"]
              ELSE L1
    IN  HandleReconnection(L2, t)

\* ws.on('close'): asks for a reconnection while the session is running
OnClose(L, w) ==
    LET t == L.sockets[w].trade
        L1 == [L EXCEPT !.sockets[w].state = "closed"]
    IN  IF HasTrade(L1, t) /\ L1.liveTrades[t].status = "running"
        THEN HandleReconnection(L1, t)
        ELSE L1

\* reconnectWebSocket up to its await: gives up after too many attempts,
\* else sleeps RECONNECT_DELAY
ReconnectWebSocket(L, t) ==
    IF ~HasTrade(L, t) THEN L
    ELSE IF L.reconnectAttempts[t] > MAX_RECONNECT_ATTEMPTS
    THEN [L EXCEPT !.liveTrades[t].status = "stopped",
                   !.liveTrades[t].lastError = "Max reconnection attempts reached",
                   !.reconnectAttempts[t] = 0]
    ELSE [L EXCEPT !.timers = @ (+) SetToBag({[trade |-> t, kind |-> "sleep",
                                               due |-> L.now + RECONNECT_DELAY]})]

\* reconnectWebSocket after its await: a new connection, or on a throw of
\* setupWebSocket the whole of reconnectWebSocket again
ReconnectAfterSleep(L, t) ==
    LET r == SetupWebSocket(L, t)
    IN  IF r.err = "none"
        THEN [r.st EXCEPT !.websockets[t] = Len(r.st.sockets)]
        ELSE ReconnectWebSocket(L, t)

\* startLiveTrade after the historical candles arrived
StartLiveTrade(L, t, strategyId, historicalKlines) ==
    LET strategy == GetStrategy(strategyId)
        n == Len(historicalKlines)
        tradeStatus ==
            [strategyId |-> strategyId,
             status |-> "running",
             currentIndicators |->
                 [price |-> IF n > 0 THEN R(historicalKlines[n].close) ELSE R(0)],
             previousIndicators |-> [price |-> Undef],
             position |-> L.ledger.position,
             performance |-> [totalTrades |-> 0, winningTrades |-> 0, losingTrades |-> 0,
                              totalProfit |-> R(0), maxDrawdown |-> R(0)],
             currentBalance |-> L.ledger.currentBalance,
             lastError |-> "none",
             klines |-> historicalKlines,
             strategy |-> strategyId]
        calc == CalculateIndicators(historicalKlines, strategy)
        L1 == [L EXCEPT !.liveTrades[t] = tradeStatus]
        L2 == IF n >= MIN_KLINES
              THEN [L1 EXCEPT !.liveTrades[t].currentIndicators = calc.st]
              ELSE L1
        r == SetupWebSocket(L2, t)
    IN  IF strategy.id = "none" THEN Throw(L, "Strategy not found")
        ELSE IF n >= MIN_KLINES /\ calc.err # "none" THEN Throw(L1, calc.err)
        ELSE IF r.err # "none" THEN r
        ELSE Ok([r.st EXCEPT !.websockets[t] = Len(r.st.sockets)])

\* stopLiveTrade(tradeId): the forced exit is decided on the session's
\* snapshot trade.position; a throw of executeExit leaves the method before
\* reconnectAttempts.delete
StopLiveTrade(L, t) ==
    LET ws == L.websockets[t]
        L1 == [L EXCEPT !.messageRateLimiter[t] = << >>]
        L2 == IF ws = 0 THEN L1
              ELSE [L1 EXCEPT !.sockets[ws].state =
                                  IF @ = "open" THEN "closing" ELSE @,
                              !.websockets[t] = 0]
        L3 == [L2 EXCEPT !.liveTrades[t].status = "stopped"]
        exit == ExecuteExit(L3.ledger, L.now, L3.liveTrades[t].currentIndicators.price)
    IN  IF ~HasTrade(L2, t) THEN Ok([L2 EXCEPT !.reconnectAttempts[t] = 0])
        ELSE IF ~L3.liveTrades[t].position.inPosition
        THEN Ok([L3 EXCEPT !.reconnectAttempts[t] = 0])
        ELSE IF exit.err # "none" THEN Throw(L3, exit.err)
        ELSE Ok([UpdateTradeStatus([L3 EXCEPT !.ledger = exit.st], t)
                    EXCEPT !.reconnectAttempts[t] = 0])

\* getLiveTradeStatus(tradeId)
GetLiveTradeStatus(L, t) == IF HasTrade(L, t) THEN UpdateTradeStatus(L, t) ELSE L


(***************************************************************************)
(* SpecLive: two sessions of one LiveTradingService under any interleaving *)
(* of start, stop, status queries and stream messages                      *)
(*                                                                         *)
(* obs.ids are the trade ids startLiveTrade hands out in the run and       *)
(* obs.budget the number of stream messages and transport failures the     *)
(* run may see.                                                            *)
(***************************************************************************)
MaxMessages == 2
LiveStrategyIds == {"strat_1"}
HistoryLengths == {49, 100}
HistoryCandle == Candle(100, 100, 100)
LiveCloses == {98, 100, 104}

History(n) == [i \in 1..n |-> HistoryCandle]

Messages ==
    {[kind |-> "ack"]} \cup
    {[kind |-> "kline", closed |-> x, candle |-> Candle(c, c, c)] :
        x \in BOOLEAN, c \in LiveCloses}

\* history: which session's event opened the position the ledger holds
OwnerAfter(L, LL, id) ==
    IF ~LL.ledger.position.inPosition THEN "none"
    ELSE IF ~L.ledger.position.inPosition THEN id
    ELSE obs.owner

Observe(op, id, err, LL) ==
    [obs EXCEPT !.op = op, !.id = id, !.err = err,
                !.owner = OwnerAfter(live, LL, id)]

NewObs(ids, messages, failures) ==
    [op |-> "new", id |-> "none", err |-> "none", owner |-> "none",
     stopReturned |-> {}, nMessages |-> 0, nFailures |-> 0,
     ids |-> ids, budget |-> [messages |-> messages, failures |-> failures]]

InitLive ==
    /\ live = NewLive(R(DefaultBalance))
    /\ obs = NewObs(TradeIds, MaxMessages, 0)
    /\ core = Idle
    /\ okOps = << >>
    /\ bt = Idle
    /\ feed = << >>

LiveStart ==
    /\ \E t \in obs.ids, sid \in LiveStrategyIds, n \in HistoryLengths :
         /\ ~HasTrade(live, t)
         /\ LET r == StartLiveTrade(live, t, sid, History(n))
            IN  /\ live' = r.st
                /\ obs' = Observe("start", t, r.err, r.st)
    /\ UNCHANGED <<core, okOps, bt, feed>>

LiveMessage ==
    /\ obs.nMessages < obs.budget.messages
    /\ \E w \in 1..Len(live.sockets), msg \in Messages :
         /\ live.sockets[w].state # "closed"
         /\ LET LL == OnMessage(live, w, msg)
            IN  /\ live' = LL
                /\ obs' = [Observe("message", live.sockets[w].trade, "none", LL)
                              EXCEPT !.nMessages = @ + 1]
    /\ UNCHANGED <<core, okOps, bt, feed>>

LiveStop ==
    /\ \E t \in TradeIds :
         LET r == StopLiveTrade(live, t)
         IN  /\ live' = r.st
             /\ obs' = [Observe("stop", t, r.err, r.st)
                           EXCEPT !.stopReturned =
                               IF r.err = "none" /\ HasTrade(live, t)
                               THEN @ \cup {t} ELSE @]
    /\ UNCHANGED <<core, okOps, bt, feed>>

LiveStatus ==
    /\ \E t \in TradeIds :
         /\ HasTrade(live, t)
         /\ LET LL == GetLiveTradeStatus(live, t)
            IN  /\ live' = LL
                /\ obs' = Observe("status", t, "none", LL)
    /\ UNCHANGED <<core, okOps, bt, feed>>

NextLive == LiveStart \/ LiveMessage \/ LiveStop \/ LiveStatus

SpecLive == InitLive /\ [][NextLive]_vars


(***************************************************************************)
(* SpecTransport: one session whose connection fails, is re-established by *)
(* the reconnect timers and is stopped, at any point                       *)
(***************************************************************************)
MaxTransportMessages == 1
MaxFailures == 2

InitTransport ==
    /\ live = NewLive(R(DefaultBalance))
    /\ obs = NewObs({"tradeId_1"}, MaxTransportMessages, MaxFailures)
    /\ core = Idle
    /\ okOps = << >>
    /\ bt = Idle
    /\ feed = << >>

LiveError ==
    /\ obs.nFailures < obs.budget.failures
    /\ \E w \in 1..Len(live.sockets) :
         /\ live.sockets[w].state # "closed"
         /\ ~live.sockets[w].erred
         /\ LET LL == OnError(live, w)
            IN  /\ live' = LL
                /\ obs' = [Observe("error", live.sockets[w].trade, "none", LL)
                              EXCEPT !.nFailures = @ + 1]
    /\ UNCHANGED <<core, okOps, bt, feed>>

\* a socket closes: by the peer or the network (a failure), or as the end of
\* the close() stopLiveTrade asked for
LiveClose ==
    /\ \E w \in 1..Len(live.sockets) :
         /\ live.sockets[w].state # "closed"
         /\ live.sockets[w].state = "open" => obs.nFailures < obs.budget.failures
         /\ LET LL == OnClose(live, w)
            IN  /\ live' = LL
                /\ obs' = [Observe("close", live.sockets[w].trade, "none", LL)
                              EXCEPT !.nFailures =
                                  IF live.sockets[w].state = "open" THEN @ + 1 ELSE @]
    /\ UNCHANGED <<core, okOps, bt, feed>>

ReconnectTimerFires ==
    /\ \E tm \in BagToSet(live.timers) :
         /\ tm.kind = "reconnect"
         /\ tm.due <= live.now
         /\ LET LL == ReconnectWebSocket(
                         [live EXCEPT !.timers = @ (-) SetToBag({tm})], tm.trade)
            IN  /\ live' = LL
                /\ obs' = Observe("reconnect", tm.trade, "none", LL)
    /\ UNCHANGED <<core, okOps, bt, feed>>

ReconnectSleepEnds ==
    /\ \E tm \in BagToSet(live.timers) :
         /\ tm.kind = "sleep"
         /\ tm.due <= live.now
         /\ LET LL == ReconnectAfterSleep(
                         [live EXCEPT !.timers = @ (-) SetToBag({tm})], tm.trade)
            IN  /\ live' = LL
                /\ obs' = Observe("connect", tm.trade, "none", LL)
    /\ UNCHANGED <<core, okOps, bt, feed>>

\* nothing happens until the next timer is due
AwaitTimer ==
    /\ BagToSet(live.timers) # {}
    /\ LET next == CHOOSE d \in {tm.due : tm \in BagToSet(live.timers)} :
                       \A tm \in BagToSet(live.timers) : d <= tm.due
       IN  /\ next > live.now
           /\ live' = [live EXCEPT !.now = next]
    /\ obs' = [obs EXCEPT !.op = "await", !.id = "none", !.err = "none"]
    /\ UNCHANGED <<core, okOps, bt, feed>>

NextTransport ==
    \/ LiveStart \/ LiveMessage \/ LiveError \/ LiveClose
    \/ ReconnectTimerFires \/ ReconnectSleepEnds
    \/ LiveStop \/ AwaitTimer

SpecTransport == InitTransport /\ [][NextTransport]_vars


(***************************************************************************)
(* BacktestingService (extends TradingCore): runBacktest, as its reset,    *)
(* one loop iteration per candle from index 50 on, and its result          *)
(***************************************************************************)
MinBacktestCandles == 50
FirstLoopIndex == 50

\* TechnicalIndicators.calculateSMA over all candles: series index k (from
\* 0; values[k + 1] here) is the mean of candles k .. k + period - 1
SMASeries(candles, period) ==
    [j \in 1..(Len(candles) - period + 1) |->
        RDiv(R(SumCloses(candles, j, j + period - 1)), R(period))]

\* calculateRSI: gains[k] and losses[k] (k from 1) of the change from
\* candle k to candle k + 1
Gain(candles, k) ==
    IF candles[k + 1].close > candles[k].close
    THEN R(candles[k + 1].close - candles[k].close) ELSE R(0)
Loss(candles, k) ==
    IF candles[k + 1].close < candles[k].close
    THEN R(candles[k].close - candles[k + 1].close) ELSE R(0)

RECURSIVE SumGains(_, _), SumLosses(_, _)
SumGains(candles, k) ==
    IF k = 0 THEN R(0) ELSE RAdd(SumGains(candles, k - 1), Gain(candles, k))
SumLosses(candles, k) ==
    IF k = 0 THEN R(0) ELSE RAdd(SumLosses(candles, k - 1), Loss(candles, k))

\* firstAvgGain and firstAvgLoss: the mean of the first `period` changes
FirstAvgGain(candles, period) == RDiv(SumGains(candles, period), R(period))
FirstAvgLoss(candles, period) == RDiv(SumLosses(candles, period), R(period))

\* one pass of the smoothing loop, for change i (from 0)
NextAvgGain(avgGains, candles, period, i) ==
    RDiv(RAdd(RMul(avgGains[Len(avgGains)], R(period - 1)), Gain(candles, i + 1)),
         R(period))
NextAvgLoss(avgLosses, candles, period, i) ==
    RDiv(RAdd(RMul(avgLosses[Len(avgLosses)], R(period - 1)), Loss(candles, i + 1)),
         R(period))

\* Number(value.toFixed(2)) of a value that is not negative
ToFixed2(x) == Norm((2 * x.n * 100 + x.d) \div (2 * x.d), 100)

RSIValueZeroWithoutLoss(gain, loss) ==
    IF loss = R(0) THEN R(0)
    ELSE ToFixed2(RSub(R(100), RDiv(R(100), RAdd(R(1), RDiv(gain, loss)))))

\* one RSI value: 100 when the average loss is 0
RSIValue(gain, loss) ==
    IF loss = R(0) THEN R(100)
    ELSE ToFixed2(RSub(R(100), RDiv(R(100), RAdd(R(1), RDiv(gain, loss)))))

\* rsiValues: series index j (from 0; values[j + 1] here) is the RSI at
\* candle j + period
RSIValues(avgGains, avgLosses) ==
    [j \in 1..Len(avgGains) |-> RSIValue(avgGains[j], avgLosses[j])]

\* calculateIndicatorSeries for the declared SMA
CalculateIndicatorSeries(candles, strategy) ==
    [sma |-> SMASeries(candles, strategy.period)]

\* createIndicatorContext(index, indicators, candle): the reading is
\* values[index], the previous one values[index - 1]; prev_ entries exist
\* for declared indicators only
CreateIndicatorContext(index, indicators, candle) ==
    LET name == CHOOSE n \in DOMAIN indicators : TRUE
        values == indicators[name]
        Has(k) == k + 1 \in DOMAIN values
    IN  [price    |-> R(candle.close),
         high     |-> R(candle.high),
         low      |-> R(candle.low),
         close    |-> R(candle.close)]
        @@ (name :> IF Has(index) THEN values[index + 1] ELSE Undef)
        @@ (("prev_" \o name) :> IF Has(index) /\ index > 0 /\ Has(index - 1)
                                 THEN values[index] ELSE Undef)

\* BacktestingService.getIndicatorValue: context[indicator]
BacktestIndicatorValue(indicator, context) ==
    IF indicator \in DOMAIN context THEN context[indicator] ELSE Undef

\* BacktestingService.evaluateCondition
BacktestEvaluateCondition(comparison, value, targetValue, context, indicator) ==
    LET prevValue == BacktestIndicatorValue("prev_" \o indicator, context)
    IN  CASE comparison = "above" -> RGt(value, targetValue)
          [] comparison = "below" -> RLt(value, targetValue)
          [] comparison = "crosses_above" ->
                IsDef(prevValue) /\ RLe(prevValue, targetValue) /\ RGt(value, targetValue)
          [] comparison = "crosses_below" ->
                IsDef(prevValue) /\ RGe(prevValue, targetValue) /\ RLt(value, targetValue)
          [] OTHER -> FALSE

\* the callback of checkEntryConditions and checkExitConditions
BacktestConditionHolds(condition, context) ==
    LET value == BacktestIndicatorValue(condition.indicator, context)
        targetValue ==
            IF condition.targetIndicator # "none"
            THEN BacktestIndicatorValue(condition.targetIndicator, context)
            ELSE R(condition.value)
    IN  /\ IsDef(value)
        /\ IsDef(targetValue)
        /\ BacktestEvaluateCondition(condition.comparison, value, targetValue,
                                     context, condition.indicator)

CheckEntryConditions(conditions, context) ==
    \A k \in 1..Len(conditions) : BacktestConditionHolds(conditions[k], context)

CheckExitConditionsAll(conditions, context) ==
    \A k \in 1..Len(conditions) : BacktestConditionHolds(conditions[k], context)

CheckExitConditions(conditions, context) ==
    \E k \in 1..Len(conditions) : BacktestConditionHolds(conditions[k], context)

RECURSIVE MaxOf(_, _)
MaxOf(xs, k) == IF k = 1 THEN xs[1] ELSE RMax(xs[k], MaxOf(xs, k - 1))

\* updateEquity(currentPrice)
UpdateEquity(c, currentPrice) ==
    LET currentEquity ==
            IF c.position.inPosition
            THEN RAdd(c.currentBalance,
                      RMul(c.position.quantity, RSub(currentPrice, c.position.entryPrice)))
            ELSE c.currentBalance
        equity == Append(c.equity, currentEquity)
        peak == MaxOf(equity, Len(equity))
        drawdown == RMul(RDiv(RSub(peak, currentEquity), peak), R(100))
    IN  [c EXCEPT !.equity = equity, !.drawdowns = Append(@, drawdown)]

BeginBacktestKeepsTrades(c, historicalData) ==
    IF Len(historicalData) < MinBacktestCandles
    THEN Throw(c, "Insufficient historical data for backtesting")
    ELSE Ok([c EXCEPT !.currentBalance = c.initialBalance,
                      !.equity = << c.initialBalance >>,
                      !.drawdowns = << R(0) >>,
                      !.position = FlatPosition])

BeginBacktestResetsFirst(c, historicalData) ==
    LET reset == [c EXCEPT !.currentBalance = c.initialBalance,
                           !.trades = << >>,
                           !.equity = << c.initialBalance >>,
                           !.drawdowns = << R(0) >>,
                           !.position = FlatPosition]
    IN  IF Len(historicalData) < MinBacktestCandles
        THEN Throw(reset, "Insufficient historical data for backtesting")
        ELSE Ok(reset)

\* runBacktest up to its loop: the length check, then the reset
BeginBacktest(c, historicalData) ==
    IF Len(historicalData) < MinBacktestCandles
    THEN Throw(c, "Insufficient historical data for backtesting")
    ELSE Ok([c EXCEPT !.currentBalance = c.initialBalance,
                      !.trades = << >>,
                      !.equity = << c.initialBalance >>,
                      !.drawdowns = << R(0) >>,
                      !.position = FlatPosition])

BacktestExitPriceAtClose(candle, stopLossPrice, takeProfitPrice) == R(candle.close)

BacktestExitPriceProfitFirst(candle, stopLossPrice, takeProfitPrice) ==
    IF RGe(R(candle.high), takeProfitPrice) THEN takeProfitPrice
    ELSE IF RLe(R(candle.low), stopLossPrice) THEN stopLossPrice
    ELSE R(candle.close)

\* the price the loop exits at
BacktestExitPrice(candle, stopLossPrice, takeProfitPrice) ==
    IF RLe(R(candle.low), stopLossPrice) THEN stopLossPrice
    ELSE IF RGe(R(candle.high), takeProfitPrice) THEN takeProfitPrice
    ELSE R(candle.close)

\* one iteration of the loop of runBacktest, for candle historicalData[i]
\* (i from 0), whose time is i, with the indicator series computed before
\* the loop
BacktestStep(c, i, historicalData, strategy, indicatorValues) ==
    LET candle == historicalData[i + 1]
        context == CreateIndicatorContext(i, indicatorValues, candle)
        stopLossPrice == StopLossPrice(c.position.entryPrice, strategy.riskManagement)
        takeProfitPrice == TakeProfitPrice(c.position.entryPrice, strategy.riskManagement)
        shouldExit ==
            \/ RLe(R(candle.low), stopLossPrice)
            \/ RGe(R(candle.high), takeProfitPrice)
            \/ CheckExitConditions(strategy.exitConditions, context)
        shouldEnter == CheckEntryConditions(strategy.entryConditions, context)
        quantity == PositionSize(c.currentBalance, R(candle.close), strategy.riskManagement)
        c1 == IF c.position.inPosition
              THEN IF shouldExit
                   THEN ExecuteExit(c, i, BacktestExitPrice(candle, stopLossPrice,
                                                            takeProfitPrice)).st
                   ELSE c
              ELSE IF shouldEnter /\ RGt(quantity, R(0))
                   THEN ExecuteEntry(c, i, R(candle.close), quantity).st
                   ELSE c
    IN  UpdateEquity(c1, R(candle.close))

BacktestIteration(c, i, historicalData, strategy) ==
    BacktestStep(c, i, historicalData, strategy,
                 CalculateIndicatorSeries(historicalData, strategy))

\* the result runBacktest returns (of its metrics, the counts and the profit)
RECURSIVE SumProfit(_, _)
SumProfit(trades, k) ==
    IF k = 0 THEN R(0) ELSE RAdd(SumProfit(trades, k - 1), trades[k].profit)

BacktestResult(c) ==
    [trades       |-> c.trades,
     equity       |-> c.equity,
     drawdowns    |-> c.drawdowns,
     finalBalance |-> c.currentBalance,
     metrics      |->
        [totalTrades   |-> Len(c.trades),
         winningTrades |-> Cardinality({k \in 1..Len(c.trades) : RGt(c.trades[k].profit, R(0))}),
         losingTrades  |-> Cardinality({k \in 1..Len(c.trades) : RLt(c.trades[k].profit, R(0))}),
         totalProfit   |-> SumProfit(c.trades, Len(c.trades))]]


(***************************************************************************)
(* SpecCmp: one candle feed given to runBacktest and, candle by candle, to *)
(* a live session of the same strategy started on the first 50 candles     *)
(*                                                                         *)
(* feed is the strategy and the candles; bt is the BacktestingService and  *)
(* the position of its loop; live is the LiveTradingService.  Both start   *)
(* from the default balance.                                               *)
(***************************************************************************)
MaxTail == 2
CmpPrices == {98, 100, 104}
CmpTradeId == "tradeId_1"

TailCandles ==
    {Candle(l, h, c) : l \in CmpPrices, h \in CmpPrices, c \in CmpPrices} \cap
    {k \in [low : CmpPrices, high : CmpPrices, close : CmpPrices] :
        k.low <= k.close /\ k.close <= k.high}

Tails == UNION {[1..n -> TailCandles] : n \in 1..MaxTail}

\* what a step did to a ledger: entered (at which price, which quantity),
\* exited (at which price) or held
ActionTaken(c, cc) ==
    IF ~c.position.inPosition /\ cc.position.inPosition
    THEN [kind |-> "enter", price |-> cc.position.entryPrice,
          quantity |-> cc.position.quantity]
    ELSE IF c.position.inPosition /\ ~cc.position.inPosition
    THEN [kind |-> "exit", price |-> cc.trades[Len(cc.trades)].exitPrice,
          quantity |-> cc.trades[Len(cc.trades)].quantity]
    ELSE [kind |-> "hold", price |-> R(0), quantity |-> R(0)]

SameLedger(c, cc) ==
    c.position = cc.position /\ c.currentBalance = cc.currentBalance

InitCmp ==
    /\ \E sid \in StrategyIds, tail \in Tails :
         feed = [strategy |-> sid, candles |-> History(MinBacktestCandles) \o tail]
    /\ bt = [phase |-> "new", i |-> 0, core |-> NewCore(R(DefaultBalance))]
    /\ live = NewLive(R(DefaultBalance))
    /\ obs = [op |-> "new", sameBefore |-> TRUE,
              backtest |-> ActionTaken(bt.core, bt.core),
              live |-> ActionTaken(bt.core, bt.core)]
    /\ core = Idle
    /\ okOps = << >>

\* runBacktest(feed.candles, strategy) starts
CmpBacktestBegins ==
    /\ bt.phase = "new"
    /\ LET r == BeginBacktest(bt.core, feed.candles)
       IN  bt' = [phase |-> IF r.err = "none" THEN "loop" ELSE "failed",
                  i |-> FirstLoopIndex, core |-> r.st]
    /\ obs' = [obs EXCEPT !.op = "runBacktest"]
    /\ UNCHANGED <<core, okOps, live, feed>>

\* startLiveTrade of the same strategy; the exchange returns the first 50
\* candles of the feed as history
CmpLiveStarts ==
    /\ bt.phase = "loop"
    /\ ~HasTrade(live, CmpTradeId)
    /\ live' = StartLiveTrade(live, CmpTradeId, feed.strategy,
                              SubSeq(feed.candles, 1, FirstLoopIndex)).st
    /\ obs' = [obs EXCEPT !.op = "start"]
    /\ UNCHANGED <<core, okOps, bt, feed>>

\* the next candle: one iteration of the backtest loop, and the candle's
\* closed kline message to the session, MESSAGE_WINDOW after the last one
CmpCandle ==
    /\ bt.phase = "loop"
    /\ HasTrade(live, CmpTradeId)
    /\ bt.i < Len(feed.candles)
    /\ LET c == BacktestIteration(bt.core, bt.i, feed.candles, GetStrategy(feed.strategy))
           LL == OnMessage([live EXCEPT !.now = @ + MESSAGE_WINDOW],
                           live.websockets[CmpTradeId],
                           [kind |-> "kline", closed |-> TRUE,
                            candle |-> feed.candles[bt.i + 1]])
       IN  /\ bt' = [bt EXCEPT !.i = @ + 1, !.core = c]
           /\ live' = LL
           /\ obs' = [op |-> "candle",
                      sameBefore |-> SameLedger(bt.core, live.ledger),
                      backtest |-> ActionTaken(bt.core, c),
                      live |-> ActionTaken(live.ledger, LL.ledger)]
    /\ UNCHANGED <<core, okOps, feed>>

\* the loop of runBacktest is over: the result
CmpBacktestEnds ==
    /\ bt.phase = "loop"
    /\ bt.i = Len(feed.candles)
    /\ bt' = [phase |-> "done", i |-> bt.i, core |-> bt.core,
              result |-> BacktestResult(bt.core)]
    /\ obs' = [obs EXCEPT !.op = "result"]
    /\ UNCHANGED <<core, okOps, live, feed>>

NextCmp == CmpBacktestBegins \/ CmpLiveStarts \/ CmpCandle \/ CmpBacktestEnds

SpecCmp == InitCmp /\ [][NextCmp]_vars

\* C5: on every candle of the feed, the backtest loop and the live
\* closed-candle handler, when they start the candle with the same position
\* and balance, take the same action: both enter with the same quantity,
\* both exit at the same price, or both hold.
C5_LiveDecidesAsBacktest ==
    (obs.op = "candle" /\ obs.sameBefore) => obs.backtest = obs.live


(***************************************************************************)
(* Sessions and their ledger                                               *)
(***************************************************************************)
Running(L, t) == HasTrade(L, t) /\ L.liveTrades[t].status = "running"

\* the position, balance and trade log session t trades on: processTradeLogic
\* and stopLiveTrade read and write this.position, this.currentBalance and
\* this.trades of the service, whatever the session
LedgerOf(L, t) == L.ledger

LastTrade(L) == L.ledger.trades[Len(L.ledger.trades)]

\* C6: with two running sessions a and b, a message delivered to a leaves
\* the position, balance and trade log of b as they were, and does not exit
\* a position that b entered.
C6_SessionsDoNotShareLedger ==
    [][\A a \in TradeIds, b \in TradeIds :
          (a # b /\ obs'.op = "message" /\ obs'.id = a
              /\ Running(live, a) /\ Running(live, b))
          => /\ LedgerOf(live', b) = LedgerOf(live, b)
             /\ ~(obs.owner = b /\ ~live'.ledger.position.inPosition)]_vars

\* C7: stopLiveTrade(t), called while session t runs and the ledger holds
\* the position t opened, returns with the ledger flat and exactly one more
\* trade in the log, which closes that position at the session's last known
\* price.
C7_StopClosesOpenPosition ==
    [][\A t \in TradeIds :
          (obs'.op = "stop" /\ obs'.id = t /\ Running(live, t)
              /\ live.ledger.position.inPosition /\ obs.owner = t)
          => /\ obs'.err = "none"
             /\ ~live'.ledger.position.inPosition
             /\ Len(live'.ledger.trades) = Len(live.ledger.trades) + 1
             /\ LastTrade(live').entryPrice = live.ledger.position.entryPrice
             /\ LastTrade(live').exitPrice = live.liveTrades[t].currentIndicators.price]_vars

\* C8: a stopped session has left no open position in the ledger.
C8_StoppedSessionIsFlat ==
    \A t \in TradeIds :
        (HasTrade(live, t) /\ live.liveTrades[t].status = "stopped")
        => ~(live.ledger.position.inPosition /\ obs.owner = t)

\* what C9 says a repeated stop leaves alone
StopView(L) ==
    [status            |-> [t \in TradeIds |-> L.liveTrades[t].status],
     position          |-> L.ledger.position,
     currentBalance    |-> L.ledger.currentBalance,
     trades            |-> L.ledger.trades,
     websockets        |-> L.websockets,
     reconnectAttempts |-> L.reconnectAttempts]

\* C9: in a state stopLiveTrade(t) has just left, and for an id t no
\* session has, a call of stopLiveTrade(t) does not throw and leaves session
\* status, ledger, trade log, connection map and reconnect counters as it
\* finds them.
C9_StopIsIdempotent ==
    \A t \in TradeIds :
        ((obs.op = "stop" /\ obs.id = t) \/ ~HasTrade(live, t))
        => /\ StopLiveTrade(live, t).err = "none"
           /\ StopView(StopLiveTrade(live, t).st) = StopView(live)

SocketsOf(L, t) == {w \in 1..Len(L.sockets) : L.sockets[w].trade = t}
TimersOf(L, t) == {tm \in BagToSet(L.timers) : tm.trade = t}

\* C10: once stopLiveTrade(t) has returned, no reconnect of t is pending or
\* gets scheduled, and no connection is opened for t any more.
C10_NoConnectionAfterStop ==
    [][\A t \in obs'.stopReturned :
          /\ TimersOf(live', t) = {}
          /\ t \in obs.stopReturned => SocketsOf(live', t) = SocketsOf(live, t)]_vars


(***************************************************************************)
(* SpecReconnect: one running session whose connections fail again and     *)
(* again, with nobody stopping it.  A connection opens before it fails,    *)
(* and it is the session's current connection that fails: by an 'error'    *)
(* event, a 'close' event, or both.                                        *)
(*                                                                         *)
(* obs.failures records, for every call of handleReconnection, when it was *)
(* made and the attempt number it computed its delay from; obs.opened are  *)
(* the sockets whose 'open' event has been delivered.                      *)
(***************************************************************************)
MaxReconnectFailures == 6
ReconnectTradeId == "tradeId_1"

\* ws.on('open'): logs and sends the SUBSCRIBE request; no field of the
\* service is written
OnOpen(L, w) == L

InitReconnect ==
    /\ live = NewLive(R(DefaultBalance))
    /\ obs = [op |-> "new", id |-> "none", err |-> "none", owner |-> "none",
              stopReturned |-> {}, nMessages |-> 0, nFailures |-> 0,
              ids |-> {ReconnectTradeId},
              budget |-> [messages |-> 0, failures |-> MaxReconnectFailures],
              failures |-> {}, opened |-> {}]
    /\ core = Idle
    /\ okOps = << >>
    /\ bt = Idle
    /\ feed = << >>

\* history: the handleReconnection call a transport event made, if any
FailuresAfter(L, LL, t) ==
    IF LL.reconnectAttempts[t] = L.reconnectAttempts[t] THEN obs.failures
    ELSE obs.failures \cup {[at |-> L.now, attempt |-> L.reconnectAttempts[t]]}

SocketOpens ==
    /\ \E w \in 1..Len(live.sockets) :
         /\ w \notin obs.opened
         /\ live.sockets[w].state = "open"
         /\ live' = OnOpen(live, w)
         /\ obs' = [Observe("open", live.sockets[w].trade, "none", live)
                       EXCEPT !.opened = @ \cup {w}]
    /\ UNCHANGED <<core, okOps, bt, feed>>

SocketError ==
    /\ obs.nFailures < obs.budget.failures
    /\ \E w \in obs.opened :
         /\ live.websockets[live.sockets[w].trade] = w
         /\ live.sockets[w].state # "closed"
         /\ ~live.sockets[w].erred
         /\ LET t == live.sockets[w].trade
                LL == OnError(live, w)
            IN  /\ live' = LL
                /\ obs' = [Observe("error", t, "none", LL)
                              EXCEPT !.nFailures = @ + 1,
                                     !.failures = FailuresAfter(live, LL, t)]
    /\ UNCHANGED <<core, okOps, bt, feed>>

SocketClose ==
    /\ obs.nFailures < obs.budget.failures
    /\ \E w \in obs.opened :
         /\ live.websockets[live.sockets[w].trade] = w
         /\ live.sockets[w].state # "closed"
         /\ LET t == live.sockets[w].trade
                LL == OnClose(live, w)
            IN  /\ live' = LL
                /\ obs' = [Observe("close", t, "none", LL)
                              EXCEPT !.nFailures = @ + 1,
                                     !.failures = FailuresAfter(live, LL, t)]
    /\ UNCHANGED <<core, okOps, bt, feed>>

NextReconnect ==
    \/ LiveStart \/ SocketOpens \/ SocketError \/ SocketClose
    \/ ReconnectTimerFires \/ ReconnectSleepEnds \/ AwaitTimer

SpecReconnect == InitReconnect /\ [][NextReconnect]_vars

\* C11: a reconnect connection is made min(5000 * 2^k, 60000) ms after the
\* failure that asked for it, k being the attempt number of that failure.
C11_ReconnectAfterBackoffDelay ==
    (obs.op = "connect" /\ Len(live.sockets) > 1)
    => \E f \in obs.failures : live.now - f.at = ReconnectDelayFor(f.attempt)

Stopped(L, t) == HasTrade(L, t) /\ L.liveTrades[t].status = "stopped"

\* C12: a session that ran out of reconnect attempts is stopped with
\* lastError 'Max reconnection attempts reached', has had at most 5 reconnect
\* connections, and from then on gets no new timer and no new connection.
C12_ExhaustedSessionStaysDown ==
    [][\A t \in TradeIds :
          /\ (Running(live, t) /\ Stopped(live', t))
             => /\ live'.liveTrades[t].lastError = "Max reconnection attempts reached"
                /\ Cardinality(SocketsOf(live', t)) <= 1 + MAX_RECONNECT_ATTEMPTS
          /\ Stopped(live, t)
             => /\ SocketsOf(live', t) = SocketsOf(live, t)
                /\ TimersOf(live', t) \subseteq TimersOf(live, t)]_vars

\* C13: when a reconnect connection opens, the session's reconnect attempt
\* counter is 0.
C13_OpenResetsAttempts ==
    (obs.op = "open" /\ obs.opened \ {1} # {})
    => live.reconnectAttempts[obs.id] = 0


(***************************************************************************)
(* SpecRate: the stream messages of one running session, in bursts and     *)
(* spread over time                                                        *)
(*                                                                         *)
(* obs.arrivals is the history of the messages delivered: when each one    *)
(* arrived and whether the handler went past its rate limiter.             *)
(***************************************************************************)
MaxRateMessages == 11
MaxRateTicks == 3
RateTickMs == 500
RateTradeId == "tradeId_1"

RateMessages ==
    {[kind |-> "ack"],
     [kind |-> "kline", closed |-> TRUE, candle |-> HistoryCandle]}

InitRate ==
    /\ live = NewLive(R(DefaultBalance))
    /\ obs = [op |-> "new", id |-> "none", err |-> "none", owner |-> "none",
              stopReturned |-> {}, nMessages |-> 0, nFailures |-> 0,
              ids |-> {RateTradeId},
              budget |-> [messages |-> MaxRateMessages, failures |-> 0],
              arrivals |-> << >>, nTicks |-> 0]
    /\ core = Idle
    /\ okOps = << >>
    /\ bt = Idle
    /\ feed = << >>

\* a message arrives: it was accepted iff the handler recorded it
StreamMessage ==
    /\ obs.nMessages < obs.budget.messages
    /\ \E w \in 1..Len(live.sockets), msg \in RateMessages :
         /\ live.sockets[w].state = "open"
         /\ LET t == live.sockets[w].trade
                LL == OnMessage(live, w, msg)
            IN  /\ live' = LL
                /\ obs' = [Observe("message", t, "none", LL)
                              EXCEPT !.nMessages = @ + 1,
                                     !.arrivals = Append(@,
                                         [at |-> live.now,
                                          accepted |-> LL.messageRateLimiter[t]
                                                          # live.messageRateLimiter[t]])]
    /\ UNCHANGED <<core, okOps, bt, feed>>

\* time passes
RateTick ==
    /\ obs.nTicks < MaxRateTicks
    /\ live' = [live EXCEPT !.now = @ + RateTickMs]
    /\ obs' = [obs EXCEPT !.op = "tick", !.id = "none", !.err = "none",
                          !.nTicks = @ + 1]
    /\ UNCHANGED <<core, okOps, bt, feed>>

NextRate == LiveStart \/ StreamMessage \/ RateTick

SpecRate == InitRate /\ [][NextRate]_vars

\* the messages before arrival i that were accepted less than 1000 ms
\* before it
AcceptedBefore(arrivals, i) ==
    {j \in 1..(i - 1) : arrivals[j].accepted /\ arrivals[i].at - arrivals[j].at < 1000}

\* C14: a message is accepted iff fewer than 5 messages of the session were
\* accepted in the 1000 ms before it; so of 10 messages within one window
\* the first 5 are accepted and the other 5 dropped, and no 1000 ms window
\* holds more than 5 accepted messages.
C14_AcceptedIffUnderLimit ==
    /\ \A i \in 1..Len(obs.arrivals) :
          obs.arrivals[i].accepted <=> Cardinality(AcceptedBefore(obs.arrivals, i)) < 5
    /\ \A i \in 1..Len(obs.arrivals) :
          Cardinality({j \in i..Len(obs.arrivals) :
                          obs.arrivals[j].accepted /\ obs.arrivals[j].at - obs.arrivals[i].at < 1000})
              <= 5
    /\ (Len(obs.arrivals) >= 10 /\ obs.arrivals[10].at - obs.arrivals[1].at < 1000)
       => \A i \in 1..10 : obs.arrivals[i].accepted <=> i <= 5

\* ten messages within one window, then one accepted after the window
C14_Witness ==
    /\ Len(obs.arrivals) = 11
    /\ obs.arrivals[10].at = obs.arrivals[1].at
    /\ ~obs.arrivals[10].accepted
    /\ obs.arrivals[11].accepted


(***************************************************************************)
(* SpecBudget: start calls against the connection budget                   *)
(*                                                                         *)
(* startLiveTrade names the session `${strategyId}_${Date.now()}`: starts  *)
(* of one strategy in the same millisecond share the id, and the later     *)
(* start overwrites the session record and its websockets entry.           *)
(***************************************************************************)
BudgetStrategyId == "strat_1"

TradeIdAt(now) == IF now = 0 THEN "tradeId_1" ELSE "tradeId_2"

\* the "N" of 'Please wait N seconds.': Math.ceil of a quotient by 1000
ConnectionLimitWait(L) ==
    LET ms == CONNECTION_WINDOW - (L.now - L.connectionAttempts[1])
    IN  IF ms % 1000 = 0 THEN ms \div 1000 ELSE (ms \div 1000) + 1

InitBudget ==
    /\ live = NewLive(R(DefaultBalance))
    /\ obs = NewObs(TradeIds, 0, 0)
    /\ core = Idle
    /\ okOps = << >>
    /\ bt = Idle
    /\ feed = << >>

\* startLiveTrade on a history one candle short of MIN_KLINES
BudgetStart ==
    /\ LET t == TradeIdAt(live.now)
           r == StartLiveTrade(live, t, BudgetStrategyId, History(MIN_KLINES - 1))
       IN  /\ live' = r.st
           /\ obs' = Observe("start", t, r.err, r.st)
    /\ UNCHANGED <<core, okOps, bt, feed>>

\* the clock moves past the end of the window that began at 0
WindowPasses ==
    /\ live.now = 0
    /\ live' = [live EXCEPT !.now = CONNECTION_WINDOW + 1]
    /\ obs' = [obs EXCEPT !.op = "tick", !.id = "none", !.err = "none"]
    /\ UNCHANGED <<core, okOps, bt, feed>>

NextBudget == BudgetStart \/ WindowPasses

SpecBudget == InitBudget /\ [][NextBudget]_vars

\* the attempts made less than CONNECTION_WINDOW ago
AttemptsInWindow(L) ==
    {i \in 1..Len(L.connectionAttempts) : L.now - L.connectionAttempts[i] < CONNECTION_WINDOW}

C16_BudgetWindowRolls ==
    (obs.op = "start" /\ obs.err = "Connection limit exceeded")
        => Cardinality(AttemptsInWindow(live)) >= 300


(***************************************************************************)
(* SpecBacktest: runBacktest called on one BacktestingService, more than   *)
(* once, with the same candles and strategy                                *)
(*                                                                         *)
(* feed is the input of the calls; bt is the service (core), the position  *)
(* of the loop of the current call and the results returned so far.        *)
(***************************************************************************)
MaxRunTail == 2
MaxRuns == 2
RunPrices == {98, 100, 101, 104}

RunCandles ==
    {k \in [low : RunPrices, high : RunPrices, close : RunPrices] :
        k.low <= k.close /\ k.close <= k.high}

RunTails == UNION {[1..n -> RunCandles] : n \in 0..MaxRunTail}

InitBacktest ==
    /\ \E sid \in StrategyIds, tail \in RunTails :
         feed = [strategy |-> sid, candles |-> History(MinBacktestCandles) \o tail]
    /\ bt = [phase |-> "idle", i |-> 0, core |-> NewCore(R(DefaultBalance)),
             results |-> << >>]
    /\ obs = [op |-> "new"]
    /\ live = Idle
    /\ core = Idle
    /\ okOps = << >>

\* runBacktest(feed.candles, strategy) is called
RunBegins ==
    /\ bt.phase \in {"idle", "done"}
    /\ Len(bt.results) < MaxRuns
    /\ LET r == BeginBacktest(bt.core, feed.candles)
       IN  bt' = [bt EXCEPT !.phase = IF r.err = "none" THEN "loop" ELSE "failed",
                            !.i = FirstLoopIndex,
                            !.core = r.st]
    /\ obs' = [op |-> "runBacktest"]
    /\ UNCHANGED <<core, okOps, live, feed>>

\* one iteration of the loop
RunCandle ==
    /\ bt.phase = "loop"
    /\ bt.i < Len(feed.candles)
    /\ bt' = [bt EXCEPT !.i = @ + 1,
                        !.core = BacktestIteration(bt.core, bt.i, feed.candles,
                                                   GetStrategy(feed.strategy))]
    /\ obs' = [op |-> "candle"]
    /\ UNCHANGED <<core, okOps, live, feed>>

\* the loop is over: runBacktest returns its result
RunEnds ==
    /\ bt.phase = "loop"
    /\ bt.i = Len(feed.candles)
    /\ bt' = [bt EXCEPT !.phase = "done",
                        !.results = Append(@, BacktestResult(bt.core))]
    /\ obs' = [op |-> "result"]
    /\ UNCHANGED <<core, okOps, live, feed>>

NextBacktest == RunBegins \/ RunCandle \/ RunEnds

SpecBacktest == InitBacktest /\ [][NextBacktest]_vars

\* C17: a result's equity curve is not empty, starts with the initial
\* balance and ends with finalBalance, also when the run ends in a position.
C17_EquityEndsAtFinalBalance ==
    \A k \in 1..Len(bt.results) :
        LET result == bt.results[k]
        IN  /\ Len(result.equity) >= 1
            /\ result.equity[1] = bt.core.initialBalance
            /\ result.equity[Len(result.equity)] = result.finalBalance

\* C18: a second runBacktest on the same service, with the same candles and
\* strategy, returns what the first one (on the fresh service) returned.
C18_RunsAreIndependent ==
    \A j \in 1..Len(bt.results), k \in 1..Len(bt.results) : bt.results[j] = bt.results[k]

\* two runs returned, each with a closed trade
C18_Witness ==
    /\ Len(bt.results) = 2
    /\ Len(bt.results[1].trades) >= 1
    /\ Len(bt.results[2].trades) >= 1

\* the last trade in the service's log
LastRunTrade(c) == c.trades[Len(c.trades)]

\* the candle the loop has just processed
LoopCandle == feed.candles[bt.i]

\* C19: an open position entered at E whose candle has low <= E(1 - s/100)
\* is exited on that candle at exactly E(1 - s/100), whatever the exit
\* conditions and the candle's high say.
C19_StopLossExitsAtStopPrice ==
    [][(/\ bt.phase = "loop"
        /\ bt'.i = bt.i + 1
        /\ bt.core.position.inPosition
        /\ RLe(R(feed.candles[bt.i + 1].low),
               RMul(bt.core.position.entryPrice,
                    RSub(R(1), RDiv(R(Risk.stopLoss), R(100))))))
          => /\ ~bt'.core.position.inPosition
             /\ Len(bt'.core.trades) = Len(bt.core.trades) + 1
             /\ LastRunTrade(bt'.core).exitTime = bt.i
             /\ LastRunTrade(bt'.core).exitPrice =
                    RMul(bt.core.position.entryPrice,
                         RSub(R(1), RDiv(R(Risk.stopLoss), R(100))))]_vars

\* entered at 100, stopped out at 98 on a candle that also reached the
\* take-profit level, with the exit condition false
C19_Witness ==
    /\ bt.phase = "loop"
    /\ bt.i > FirstLoopIndex
    /\ Len(bt.core.trades) >= 1
    /\ LastRunTrade(bt.core).exitTime = bt.i - 1
    /\ LastRunTrade(bt.core).entryPrice = R(100)
    /\ LastRunTrade(bt.core).exitPrice = R(98)
    /\ LoopCandle.high >= 104
    /\ ~CheckExitConditions(GetStrategy(feed.strategy).exitConditions,
                            CreateIndicatorContext(bt.i - 1,
                                CalculateIndicatorSeries(feed.candles, GetStrategy(feed.strategy)),
                                LoopCandle))


(***************************************************************************)
(* SpecRsi: runBacktest of a strategy that enters when its RSI is below 30 *)
(* and exits when it is above 70, on a rising feed and on feeds that fall  *)
(***************************************************************************)
DefaultRsiPeriod == 14
MaxRsiTail == 2
RsiPeriods == {2, DefaultRsiPeriod}

RsiStrategy(period) ==
    [id |-> "rsi", type |-> "rsi", period |-> period,
     entryConditions |-> << Cond("rsi", "below", 30) >>,
     exitConditions  |-> << Cond("rsi", "above", 70) >>,
     riskManagement  |-> Risk]

\* candles whose close rises by 1 from 1 on, as many as let the loop read
\* the RSI of the candles that follow them
RisingCandles == [k \in 1..(MinBacktestCandles + DefaultRsiPeriod) |-> Candle(k, k, k)]

\* closes of the candles that follow: one far below, the others above
RsiCloses == {10, Len(RisingCandles) + 1, Len(RisingCandles) + 2, Len(RisingCandles) + 3}

RsiTails == UNION {[1..n -> {Candle(c, c, c) : c \in RsiCloses}] : n \in 0..MaxRsiTail}

StrictlyIncreasing(candles) ==
    \A k \in 1..(Len(candles) - 1) : candles[k].close < candles[k + 1].close

InitRsi ==
    /\ \E period \in RsiPeriods, tail \in RsiTails :
         feed = [strategy |-> RsiStrategy(period), candles |-> RisingCandles \o tail]
    /\ bt = [phase |-> "idle", i |-> 0, core |-> NewCore(R(DefaultBalance)),
             results |-> << >>, avgGains |-> << >>, avgLosses |-> << >>,
             indicatorValues |-> [rsi |-> << >>]]
    /\ obs = [op |-> "new"]
    /\ live = Idle
    /\ core = Idle
    /\ okOps = << >>

\* runBacktest(feed.candles, feed.strategy) is called: the reset, then
\* calculateRSI up to its smoothing loop
RsiRunBegins ==
    /\ bt.phase = "idle"
    /\ LET r == BeginBacktest(bt.core, feed.candles)
       IN  bt' = [bt EXCEPT !.phase = IF r.err = "none" THEN "rsi" ELSE "failed",
                            !.i = feed.strategy.period,
                            !.core = r.st,
                            !.avgGains = << FirstAvgGain(feed.candles, feed.strategy.period) >>,
                            !.avgLosses = << FirstAvgLoss(feed.candles, feed.strategy.period) >>]
    /\ obs' = [op |-> "runBacktest"]
    /\ UNCHANGED <<core, okOps, live, feed>>

\* one pass of the smoothing loop of calculateRSI (i < changes.length)
RsiSmooths ==
    /\ bt.phase = "rsi"
    /\ bt.i < Len(feed.candles) - 1
    /\ bt' = [bt EXCEPT !.i = @ + 1,
                        !.avgGains = Append(@, NextAvgGain(@, feed.candles,
                                                           feed.strategy.period, bt.i)),
                        !.avgLosses = Append(@, NextAvgLoss(@, feed.candles,
                                                            feed.strategy.period, bt.i))]
    /\ obs' = [op |-> "smooth"]
    /\ UNCHANGED <<core, okOps, live, feed>>

\* calculateRSI returns its values; the loop of runBacktest begins
RsiSeriesEnds ==
    /\ bt.phase = "rsi"
    /\ bt.i = Len(feed.candles) - 1
    /\ bt' = [bt EXCEPT !.phase = "loop",
                        !.i = FirstLoopIndex,
                        !.indicatorValues = [rsi |-> RSIValues(bt.avgGains, bt.avgLosses)]]
    /\ obs' = [op |-> "series"]
    /\ UNCHANGED <<core, okOps, live, feed>>

\* one iteration of the loop
RsiRunCandle ==
    /\ bt.phase = "loop"
    /\ bt.i < Len(feed.candles)
    /\ bt' = [bt EXCEPT !.i = @ + 1,
                        !.core = BacktestStep(bt.core, bt.i, feed.candles,
                                              feed.strategy, bt.indicatorValues)]
    /\ obs' = [op |-> "candle"]
    /\ UNCHANGED <<core, okOps, live, feed>>

NextRsi == RsiRunBegins \/ RsiSmooths \/ RsiSeriesEnds \/ RsiRunCandle \/ RunEnds

SpecRsi == InitRsi /\ [][NextRsi]_vars

\* C20: on candles whose close strictly increases, the backtest of the
\* RSI<30 / RSI>70 strategy returns no trade and the initial balance.
C20_RisingFeedNeverTrades ==
    \A k \in 1..Len(bt.results) :
        (Len(feed.candles) >= 50 /\ StrictlyIncreasing(feed.candles))
            => /\ bt.results[k].trades = << >>
               /\ bt.results[k].finalBalance = bt.core.initialBalance

\* a run over a rising feed long enough for the loop to read RSI values
C20_Witness ==
    /\ Len(bt.results) = 1
    /\ StrictlyIncreasing(feed.candles)
    /\ Len(feed.candles) > MinBacktestCandles + feed.strategy.period
    /\ bt.results[1].trades = << >>
    /\ Len(bt.results[1].equity) = 1 + Len(feed.candles) - FirstLoopIndex

(***************************************************************************)
(* SpecCross: the two condition evaluators on the readings of a feed       *)
(*                                                                         *)
(* feed is a strategy with one SMA(2) and one entry condition, and the     *)
(* candles; bt.i is the index of the candle evaluated next.  obs holds the *)
(* readings of the last evaluation and what each evaluator answered.       *)
(***************************************************************************)
MaxCrossTail == 3

CrossConditions ==
    {Cond("sma", "crosses_above", 100), Cond("sma", "crosses_below", 100),
     CondOn("sma", "crosses_above", "price"), CondOn("sma", "crosses_below", "price"),
     CondOn("price", "crosses_above", "sma")}

CrossStrategy(condition) ==
    [id |-> "cross", period |-> 2,
     entryConditions |-> << condition >>,
     exitConditions  |-> << >>,
     riskManagement  |-> Risk]

CrossTails == UNION {[1..n -> {Candle(c, c, c) : c \in CmpPrices}] : n \in 1..MaxCrossTail}

\* the reading of a condition's target: the literal, or the target
\* indicator's entry
TargetOf(condition, reading) ==
    IF condition.targetIndicator # "none"
    THEN GetIndicatorValue(condition.targetIndicator, reading)
    ELSE R(condition.value)

InitCross ==
    /\ \E condition \in CrossConditions, tail \in CrossTails :
         feed = [strategy |-> CrossStrategy(condition),
                 candles |-> History(MinBacktestCandles) \o tail]
    /\ bt = [phase |-> "loop", i |-> FirstLoopIndex]
    /\ obs = [op |-> "new"]
    /\ live = Idle
    /\ core = Idle
    /\ okOps = << >>

\* candle bt.i is evaluated: the backtest on the context of index bt.i, the
\* live evaluator on the readings of index bt.i and bt.i - 1
CrossEvaluates ==
    /\ bt.i < Len(feed.candles)
    /\ LET condition == feed.strategy.entryConditions[1]
           series == CalculateIndicatorSeries(feed.candles, feed.strategy)
           context == CreateIndicatorContext(bt.i, series, feed.candles[bt.i + 1])
           before == CreateIndicatorContext(bt.i - 1, series, feed.candles[bt.i])
           cur == [price |-> context.price, sma |-> context.sma]
           prev == [price |-> before.price, sma |-> before.sma]
       IN  obs' = [op |-> "evaluate",
                   comparison |-> condition.comparison,
                   previousValue |-> GetIndicatorValue(condition.indicator, prev),
                   previousTargetValue |-> TargetOf(condition, prev),
                   currentValue |-> GetIndicatorValue(condition.indicator, cur),
                   targetValue |-> TargetOf(condition, cur),
                   backtest |-> CheckEntryConditions(feed.strategy.entryConditions, context),
                   live |-> ShouldEnter(feed.strategy, cur, prev)]
    /\ bt' = [bt EXCEPT !.i = @ + 1]
    /\ UNCHANGED <<core, okOps, live, feed>>

NextCross == CrossEvaluates

SpecCross == InitCross /\ [][NextCross]_vars

\* a crossing of the readings in obs: the previous value on one side of the
\* previous target (or on it), the current value strictly on the other side
Crossed(o) ==
    /\ IsDef(o.previousValue)
    /\ IsDef(o.previousTargetValue)
    /\ IF o.comparison = "crosses_above"
       THEN RLe(o.previousValue, o.previousTargetValue) /\ RGt(o.currentValue, o.targetValue)
       ELSE RGe(o.previousValue, o.previousTargetValue) /\ RLt(o.currentValue, o.targetValue)

\* C21: in the backtest and in the live evaluator a crosses_above (or
\* crosses_below) condition holds only if a previous reading exists, the
\* previous value was <= (>=) the previous target and the current value is
\* > (<) the current target.
C21_CrossNeedsPreviousReading ==
    obs.op = "evaluate" => /\ obs.backtest => Crossed(obs)
                           /\ obs.live => Crossed(obs)

(***************************************************************************)
(* SpecTrades: runBacktest on one BacktestingService with the strategies   *)
(* of the store and with one whose exit condition holds at its entry       *)
(* price; a call with too few candles may come at any time between runs    *)
(***************************************************************************)
MaxTradesTail == 2

\* enters while the SMA(1) is below 101, exits when it is above 99
ScalpStrategy ==
    [id |-> "scalp", period |-> 1,
     entryConditions |-> << Cond("sma", "below", 101) >>,
     exitConditions  |-> << Cond("sma", "above", 99) >>,
     riskManagement  |-> Risk]

TradesStrategies == {StrategyStore[id] : id \in StrategyIds} \cup {ScalpStrategy}

TradesPrices == {96, 98, 100, 104}

TradesCandles ==
    {k \in [low : TradesPrices, high : TradesPrices, close : TradesPrices] :
        k.low <= k.close /\ k.close <= k.high}

TradesTails == UNION {[1..n -> TradesCandles] : n \in 0..MaxTradesTail}

InitTrades ==
    /\ \E strategy \in TradesStrategies, tail \in TradesTails :
         feed = [strategy |-> strategy, candles |-> History(MinBacktestCandles) \o tail]
    /\ bt = [phase |-> "idle", i |-> 0, core |-> NewCore(R(DefaultBalance)),
             results |-> << >>]
    /\ obs = [op |-> "new", err |-> "none"]
    /\ live = Idle
    /\ core = Idle
    /\ okOps = << >>

\* runBacktest(feed.candles, feed.strategy) is called
TradesRunBegins ==
    /\ bt.phase \in {"idle", "done"}
    /\ Len(bt.results) < MaxRuns
    /\ LET r == BeginBacktest(bt.core, feed.candles)
       IN  /\ bt' = [bt EXCEPT !.phase = IF r.err = "none" THEN "loop" ELSE "failed",
                               !.i = FirstLoopIndex,
                               !.core = r.st]
           /\ obs' = [op |-> "runBacktest", err |-> r.err]
    /\ UNCHANGED <<core, okOps, live, feed>>

\* the numbers of candles of a call with too few of them
ShortLengths == {0, MinBacktestCandles - 1}

\* runBacktest is called with the first n < 50 candles of the feed
TradesShortRun ==
    /\ bt.phase \in {"idle", "done"}
    /\ \E n \in ShortLengths :
         LET r == BeginBacktest(bt.core, SubSeq(feed.candles, 1, n))
         IN  /\ bt' = [bt EXCEPT !.core = r.st]
             /\ obs' = [op |-> "shortRun", err |-> r.err]
    /\ UNCHANGED <<core, okOps, live, feed>>

\* one iteration of the loop
TradesCandle ==
    /\ bt.phase = "loop"
    /\ bt.i < Len(feed.candles)
    /\ bt' = [bt EXCEPT !.i = @ + 1,
                        !.core = BacktestIteration(bt.core, bt.i, feed.candles,
                                                   feed.strategy)]
    /\ obs' = [op |-> "candle", err |-> "none"]
    /\ UNCHANGED <<core, okOps, live, feed>>

\* the loop is over: runBacktest returns its result
TradesRunEnds ==
    /\ bt.phase = "loop"
    /\ bt.i = Len(feed.candles)
    /\ bt' = [bt EXCEPT !.phase = "done",
                        !.results = Append(@, BacktestResult(bt.core))]
    /\ obs' = [op |-> "result", err |-> "none"]
    /\ UNCHANGED <<core, okOps, live, feed>>

NextTrades == TradesRunBegins \/ TradesShortRun \/ TradesCandle \/ TradesRunEnds

SpecTrades == InitTrades /\ [][NextTrades]_vars

\* C22: in every result, totalTrades = winningTrades + losingTrades.
C22_TradesAreWinsPlusLosses ==
    \A k \in 1..Len(bt.results) :
        bt.results[k].metrics.totalTrades =
            bt.results[k].metrics.winningTrades + bt.results[k].metrics.losingTrades

ClaimedQuantity(b, p, risk) ==
    LET stopLossPrice == RMul(p, RSub(R(1), RDiv(R(risk.stopLoss), R(100))))
    IN  RMin(RDiv(RDiv(b, R(100)), RSub(p, stopLossPrice)),
             RDiv(RDiv(RMul(b, R(risk.maxPositionSize)), R(100)), p))

\* an entry from ledger c to ledger cc is sized as claimed and within the
\* cap; with a claimed quantity <= 0 at the close there is no entry
SizedAsClaimed(c, cc, close, risk) ==
    /\ (~c.position.inPosition /\ cc.position.inPosition)
          => /\ cc.position.quantity =
                    ClaimedQuantity(c.currentBalance, cc.position.entryPrice, risk)
             /\ RLe(RMul(cc.position.entryPrice, cc.position.quantity),
                    RDiv(RMul(c.currentBalance, R(risk.maxPositionSize)), R(100)))
    /\ (~c.position.inPosition /\ RLe(ClaimedQuantity(c.currentBalance, R(close), risk), R(0)))
          => ~cc.position.inPosition

\* C24: an entry of the backtest loop or of the live loop at price p with
\* balance b has quantity min(0.01 b / (p - stopLossPrice),
\* b maxPositionSize / 100 / p), so p * quantity is at most maxPositionSize
\* percent of b; with a quantity <= 0 no entry is made.
C24_EntryIsSizedAndCapped ==
    [][(bt.phase = "loop" /\ bt'.phase = "loop" /\ bt'.i = bt.i + 1)
          => /\ SizedAsClaimed(bt.core, bt'.core, feed.candles[bt.i + 1].close,
                               GetStrategy(feed.strategy).riskManagement)
             /\ SizedAsClaimed(live.ledger, live'.ledger, feed.candles[bt.i + 1].close,
                               GetStrategy(feed.strategy).riskManagement)]_vars

\* both loops have entered with the capped quantity
C24_Witness ==
    /\ obs.op = "candle"
    /\ obs.backtest.kind = "enter"
    /\ obs.live.kind = "enter"
    /\ GetStrategy(feed.strategy).riskManagement.maxPositionSize = 25
    /\ RMul(obs.live.price, obs.live.quantity) = RDiv(live.ledger.currentBalance, R(4))

(***************************************************************************)
(* SpecManager: StrategyManager.addStrategy, updateStrategy and            *)
(* deleteStrategy with valid and invalid definitions                       *)
(*                                                                         *)
(* core.strategies is the map of the manager (NoStrategy where an id has   *)
(* no entry); obs is the last call, its argument and its outcome.          *)
(***************************************************************************)
GivenIds == {"s1"}
GeneratedIds == {"g1"}
ManagerIds == GivenIds \cup GeneratedIds
Null == [null |-> TRUE]

\* the strategy definitions a caller may pass: with or without an id, a
\* name, an indicator, an entry condition, an exit condition, risk parameters
Definitions ==
    [id : GivenIds \cup {""},
     name : {"", "A", "B"},
     indicators : {{}, {"sma"}},
     entryConditions : {<< >>, << Cond("sma", "below", 101) >>},
     exitConditions : {<< >>, << Cond("sma", "above", 103) >>},
     riskManagement : {Null, Risk}]

ValidateStrategyWithoutExits(strategy) ==
    IF strategy.name = "" THEN "Missing required strategy fields"
    ELSE IF strategy.indicators = {} THEN "Strategy must have at least one indicator"
    ELSE IF strategy.entryConditions = << >>
    THEN "Strategy must have at least one entry condition"
    ELSE IF strategy.riskManagement = Null
    THEN "Strategy must have risk management parameters"
    ELSE "none"

\* validateStrategy: the message of the error it throws, or "none"
ValidateStrategy(strategy) ==
    IF strategy.name = "" THEN "Missing required strategy fields"
    ELSE IF strategy.indicators = {} THEN "Strategy must have at least one indicator"
    ELSE IF strategy.entryConditions = << >>
    THEN "Strategy must have at least one entry condition"
    ELSE IF strategy.exitConditions = << >>
    THEN "Strategy must have at least one exit condition"
    ELSE IF strategy.riskManagement = Null
    THEN "Strategy must have risk management parameters"
    ELSE "none"

\* addStrategy(strategy), generateStrategyId() having returned `generated`
AddStrategy(M, strategy, generated) ==
    LET withId == IF strategy.id = "" THEN [strategy EXCEPT !.id = generated]
                  ELSE strategy
        err == ValidateStrategy(withId)
    IN  IF err # "none" THEN [st |-> M, err |-> err, ret |-> "none"]
        ELSE [st |-> [M EXCEPT !.strategies[withId.id] = withId],
              err |-> "none", ret |-> withId.id]

\* updateStrategy(id, strategy)
UpdateStrategy(M, id, strategy) ==
    LET err == ValidateStrategy(strategy)
    IN  IF M.strategies[id] = NoStrategy THEN [st |-> M, err |-> "none", ret |-> "false"]
        ELSE IF err # "none" THEN [st |-> M, err |-> err, ret |-> "none"]
        ELSE [st |-> [M EXCEPT !.strategies[id] = [strategy EXCEPT !.id = id]],
              err |-> "none", ret |-> "true"]

\* deleteStrategy(id)
DeleteStrategy(M, id) ==
    [st |-> [M EXCEPT !.strategies[id] = NoStrategy], err |-> "none",
     ret |-> IF M.strategies[id] = NoStrategy THEN "false" ELSE "true"]

InitManager ==
    /\ core = [strategies |-> [id \in ManagerIds |-> NoStrategy]]
    /\ obs = [op |-> "new", id |-> "", strategy |-> NoStrategy, err |-> "none",
              ret |-> "none"]
    /\ okOps = << >>
    /\ live = Idle
    /\ bt = Idle
    /\ feed = << >>

ManagerAdd ==
    /\ \E strategy \in Definitions, generated \in GeneratedIds :
         LET r == AddStrategy(core, strategy, generated)
         IN  /\ core' = r.st
             /\ obs' = [op |-> "add", id |-> strategy.id, strategy |-> strategy,
                        err |-> r.err, ret |-> r.ret]
    /\ UNCHANGED <<okOps, live, bt, feed>>

ManagerUpdate ==
    /\ \E id \in ManagerIds, strategy \in Definitions :
         LET r == UpdateStrategy(core, id, strategy)
         IN  /\ core' = r.st
             /\ obs' = [op |-> "update", id |-> id, strategy |-> strategy,
                        err |-> r.err, ret |-> r.ret]
    /\ UNCHANGED <<okOps, live, bt, feed>>

ManagerDelete ==
    /\ \E id \in ManagerIds :
         LET r == DeleteStrategy(core, id)
         IN  /\ core' = r.st
             /\ obs' = [op |-> "delete", id |-> id, strategy |-> NoStrategy,
                        err |-> r.err, ret |-> r.ret]
    /\ UNCHANGED <<okOps, live, bt, feed>>

NextManager == ManagerAdd \/ ManagerUpdate \/ ManagerDelete

SpecManager == InitManager /\ [][NextManager]_vars

\* what C25 asks of a stored strategy
WellFormed(strategy) ==
    /\ strategy.name # ""
    /\ strategy.indicators # {}
    /\ Len(strategy.entryConditions) >= 1
    /\ Len(strategy.exitConditions) >= 1
    /\ strategy.riskManagement # Null

\* C25: every stored strategy has a name, an indicator, an entry condition,
\* an exit condition and risk parameters; addStrategy and updateStrategy
\* with a definition lacking one of them throw and leave the stored
\* strategies as they were; updateStrategy of an unknown id returns false
\* and stores nothing.
C25_StoredStrategiesAreWellFormed ==
    [][/\ \A id \in ManagerIds :
             core'.strategies[id] # NoStrategy => WellFormed(core'.strategies[id])
       /\ (obs'.op = "add" /\ ~WellFormed(obs'.strategy))
             => (obs'.err # "none" /\ core'.strategies = core.strategies)
       /\ (obs'.op = "update" /\ core.strategies[obs'.id] = NoStrategy)
             => (obs'.ret = "false" /\ obs'.err = "none"
                 /\ core'.strategies = core.strategies)
       /\ (obs'.op = "update" /\ core.strategies[obs'.id] # NoStrategy
                              /\ ~WellFormed(obs'.strategy))
             => (obs'.err # "none" /\ core'.strategies = core.strategies)]_vars

\* a stored strategy has survived an update with a definition that has no
\* exit condition
C25_Witness ==
    /\ obs.op = "update"
    /\ obs.strategy.exitConditions = << >>
    /\ obs.err = "Strategy must have at least one exit condition"
    /\ core.strategies[obs.id] # NoStrategy
    /\ core.strategies[obs.id].name = "B"

\* C26: runBacktest with fewer than 50 candles fails with 'Insufficient
\* historical data for backtesting' and leaves the balance, the position,
\* the trade log and the equity curve of the service as they were.
C26_ShortRunFailsAndTouchesNothing ==
    [][obs'.op = "shortRun"
         => /\ obs'.err = "Insufficient historical data for backtesting"
            /\ bt'.core.currentBalance = bt.core.currentBalance
            /\ bt'.core.position = bt.core.position
            /\ bt'.core.trades = bt.core.trades
            /\ bt'.core.equity = bt.core.equity]_vars

\* the short call came after a run that left a trade, a changed balance and
\* an equity curve behind
C26_Witness ==
    /\ obs.op = "shortRun"
    /\ obs.err = "Insufficient historical data for backtesting"
    /\ bt.phase = "done"
    /\ Len(bt.core.trades) >= 1
    /\ bt.core.currentBalance # bt.core.initialBalance
    /\ Len(bt.core.equity) > 1

(***************************************************************************)
(* SpecSeries: TechnicalIndicators.calculateRSI on short inputs, with the  *)
(* timestamps of its values                                                *)
(*                                                                         *)
(* feed is the call's arguments; bt is the position in calculateRSI with   *)
(* its local arrays and, at the end, what it returns or throws.            *)
(***************************************************************************)
MaxSeriesLen == 5
SeriesPeriods == {1, 2, 3}

\* one-minute klines: kline k (from 1) has its own time
Kline(c, k) == [low |-> c, high |-> c, close |-> c, time |-> 60000 * k]
SeriesInputs ==
    UNION {{[k \in 1..n |-> Kline(closes[k], k)] : closes \in [1..n -> CmpPrices]} :
             n \in 0..MaxSeriesLen}

\* extractTimestamps
ExtractTimestamps(klines) == [k \in 1..Len(klines) |-> klines[k].time]

RsiTimestampWithoutOffset(timestamps, index, period) == timestamps[index + 1]

\* timestamps[index + period], index and array from 0
RsiTimestamp(timestamps, index, period) == timestamps[index + period + 1]

\* the array calculateRSI returns
RSIResults(avgGains, avgLosses, klines, period) ==
    [j \in 1..Len(avgGains) |->
        [value |-> RSIValues(avgGains, avgLosses)[j],
         timestamp |-> RsiTimestamp(ExtractTimestamps(klines), j - 1, period)]]

InitSeries ==
    /\ \E klines \in SeriesInputs, period \in SeriesPeriods :
         feed = [klines |-> klines, period |-> period]
    /\ bt = [phase |-> "idle", i |-> 0, avgGains |-> << >>, avgLosses |-> << >>,
             result |-> << >>, err |-> "none", points |-> 0]
    /\ obs = [op |-> "new"]
    /\ live = Idle
    /\ core = Idle
    /\ okOps = << >>

\* calculateRSI(feed.klines, feed.period) is called and throws for its
\* length check
SeriesCallFails ==
    /\ bt.phase = "idle"
    /\ Len(feed.klines) < feed.period + 1
    /\ bt' = [bt EXCEPT !.phase = "failed",
                        !.err = "Insufficient data for RSI calculation. Need at least",
                        !.points = feed.period + 1]
    /\ obs' = [op |-> "calculateRSI"]
    /\ UNCHANGED <<core, okOps, live, feed>>

\* calculateRSI(feed.klines, feed.period) is called and reaches its
\* smoothing loop
SeriesCall ==
    /\ bt.phase = "idle"
    /\ ~(Len(feed.klines) < feed.period + 1)
    /\ bt' = [bt EXCEPT !.phase = "rsi",
                        !.i = feed.period,
                        !.avgGains = << FirstAvgGain(feed.klines, feed.period) >>,
                        !.avgLosses = << FirstAvgLoss(feed.klines, feed.period) >>]
    /\ obs' = [op |-> "calculateRSI"]
    /\ UNCHANGED <<core, okOps, live, feed>>

\* one pass of the smoothing loop (i < changes.length)
SeriesSmooths ==
    /\ bt.phase = "rsi"
    /\ bt.i < Len(feed.klines) - 1
    /\ bt' = [bt EXCEPT !.i = @ + 1,
                        !.avgGains = Append(@, NextAvgGain(@, feed.klines, feed.period, bt.i)),
                        !.avgLosses = Append(@, NextAvgLoss(@, feed.klines, feed.period, bt.i))]
    /\ obs' = [op |-> "smooth"]
    /\ UNCHANGED <<core, okOps, live, feed>>

\* calculateRSI returns
SeriesReturns ==
    /\ bt.phase = "rsi"
    /\ bt.i = Len(feed.klines) - 1
    /\ bt' = [bt EXCEPT !.phase = "done",
                        !.result = RSIResults(bt.avgGains, bt.avgLosses, feed.klines,
                                              feed.period)]
    /\ obs' = [op |-> "return"]
    /\ UNCHANGED <<core, okOps, live, feed>>

NextSeries == SeriesCallFails \/ SeriesCall \/ SeriesSmooths \/ SeriesReturns

SpecSeries == InitSeries /\ [][NextSeries]_vars

\* C27: on n >= period + 1 candles calculateRSI returns n - period values,
\* value i (from 0) carrying the timestamp of candle i + period; on fewer
\* candles it fails with an 'Insufficient data' error.
C27_RsiLengthAndOffset ==
    /\ Len(feed.klines) >= feed.period + 1 => bt.phase # "failed"
    /\ Len(feed.klines) < feed.period + 1 => bt.phase \in {"idle", "failed"}
    /\ bt.phase = "failed"
         => bt.err = "Insufficient data for RSI calculation. Need at least"
    /\ bt.phase = "done"
         => /\ Len(bt.result) = Len(feed.klines) - feed.period
            /\ \A i \in 0..(Len(bt.result) - 1) :
                 bt.result[i + 1].timestamp = feed.klines[i + feed.period + 1].time

\* calculateRSI has returned three values for five candles and period 2
C27_Witness ==
    /\ bt.phase = "done"
    /\ feed.period = 2
    /\ Len(feed.klines) = 5
    /\ Len(bt.result) = 3
    /\ bt.result[1].timestamp = feed.klines[3].time

\* a session's record without its displayed current indicators
WithoutIndicators(trade) ==
    IF trade = NoTrade THEN trade ELSE [trade EXCEPT !.currentIndicators = Undef]

\* C28: an interim (unclosed) kline, arriving on any open socket in any
\* state, enters and exits nothing and leaves the candle window, the
\* balance, the position and the trade log as they were; of a session's
\* record only the current indicators may change.
C28_InterimUpdateOnlyDisplays ==
    \A w \in 1..Len(live.sockets), c \in LiveCloses :
        live.sockets[w].state # "closed" =>
            LET LL == OnMessage(live, w, [kind |-> "kline", closed |-> FALSE,
                                          candle |-> Candle(c, c, c)])
            IN  /\ LL.ledger = live.ledger
                /\ \A t \in TradeIds :
                     WithoutIndicators(LL.liveTrades[t]) = WithoutIndicators(live.liveTrades[t])

\* an interim kline at 98 has been displayed by a running session whose
\* entry condition it meets: the window still ends with the last closed
\* candle and there is no position and no trade
C28_Witness ==
    /\ obs.op = "message"
    /\ HasTrade(live, obs.id)
    /\ live.liveTrades[obs.id].status = "running"
    /\ Len(live.liveTrades[obs.id].klines) >= MIN_KLINES
    /\ live.liveTrades[obs.id].klines[Len(live.liveTrades[obs.id].klines)].close = 100
    /\ live.liveTrades[obs.id].currentIndicators.price = R(98)
    /\ ShouldEnter(GetStrategy(live.liveTrades[obs.id].strategy),
                   live.liveTrades[obs.id].currentIndicators,
                   live.liveTrades[obs.id].currentIndicators)
    /\ ~live.ledger.position.inPosition
    /\ live.ledger.trades = << >>

(***************************************************************************)
(* SpecInterim: two runs of one session on the same closed candles, the    *)
(* second one also receiving interim updates                               *)
(*                                                                         *)
(* live is the run that sees only closed klines; bt.twin is the run that   *)
(* sees the same closed klines and, between them, interim klines.  feed is *)
(* the strategy and the closed candles so far.                             *)
(***************************************************************************)
MaxInterimCandles == 2
MaxInterimUpdates == 1
InterimTradeId == CHOOSE t \in TradeIds : TRUE

InitInterim ==
    /\ live = NewLive(R(DefaultBalance))
    /\ bt = [twin |-> NewLive(R(DefaultBalance)), updates |-> 0]
    /\ \E sid \in StrategyIds : feed = [strategy |-> sid, closed |-> << >>]
    /\ obs = [op |-> "new"]
    /\ core = Idle
    /\ okOps = << >>

\* both runs start the session on the same history
InterimStarts ==
    /\ ~HasTrade(live, InterimTradeId)
    /\ live' = StartLiveTrade(live, InterimTradeId, feed.strategy,
                              History(MIN_KLINES)).st
    /\ bt' = [bt EXCEPT !.twin = StartLiveTrade(bt.twin, InterimTradeId, feed.strategy,
                                                History(MIN_KLINES)).st]
    /\ obs' = [op |-> "start"]
    /\ UNCHANGED <<core, okOps, feed>>

\* the second run receives an interim kline, MESSAGE_WINDOW after its last
\* message
InterimUpdate ==
    /\ HasTrade(live, InterimTradeId)
    /\ bt.updates < MaxInterimUpdates
    /\ Len(feed.closed) < MaxInterimCandles
    /\ \E c \in LiveCloses :
         bt' = [bt EXCEPT !.updates = @ + 1,
                          !.twin = OnMessage([bt.twin EXCEPT !.now = @ + MESSAGE_WINDOW],
                                             bt.twin.websockets[InterimTradeId],
                                             [kind |-> "kline", closed |-> FALSE,
                                              candle |-> Candle(c, c, c)])]
    /\ obs' = [op |-> "interim"]
    /\ UNCHANGED <<core, okOps, live, feed>>

\* both runs receive the same closed kline, MESSAGE_WINDOW after their last
\* message
InterimClosed ==
    /\ HasTrade(live, InterimTradeId)
    /\ Len(feed.closed) < MaxInterimCandles
    /\ \E c \in LiveCloses :
         LET msg == [kind |-> "kline", closed |-> TRUE, candle |-> Candle(c, c, c)]
         IN  /\ live' = OnMessage([live EXCEPT !.now = @ + MESSAGE_WINDOW],
                                  live.websockets[InterimTradeId], msg)
             /\ bt' = [bt EXCEPT !.updates = 0,
                                 !.twin = OnMessage([bt.twin EXCEPT !.now = @ + MESSAGE_WINDOW],
                                                    bt.twin.websockets[InterimTradeId], msg)]
             /\ feed' = [feed EXCEPT !.closed = Append(@, msg.candle)]
    /\ obs' = [op |-> "closed"]
    /\ UNCHANGED <<core, okOps>>

NextInterim == InterimStarts \/ InterimUpdate \/ InterimClosed

SpecInterim == InitInterim /\ [][NextInterim]_vars

\* C29: two runs of a session that receive the same closed candles, one of
\* them with interim updates in between, hold the same position and the
\* same trade log after every closed candle.
C29_DecisionsIgnoreInterimUpdates ==
    obs.op = "closed" =>
        /\ bt.twin.ledger.position = live.ledger.position
        /\ Len(bt.twin.ledger.trades) = Len(live.ledger.trades)

(***************************************************************************)
(* SpecWindow: the candle window of one session from its start through    *)
(* closed klines                                                           *)
(*                                                                         *)
(* feed is every candle the session was given, in arrival order: the       *)
(* candles the exchange returned for the start, then the closed klines.    *)
(* The exchange answers the request for the range of MAX_PRICES timeframes *)
(* before now with the candles that open in that range; the service takes *)
(* the answer as it comes.                                                 *)
(***************************************************************************)
MaxWindowCandles == 3
WindowTradeId == CHOOSE t \in TradeIds : TRUE
WindowHistoryLengths == {MIN_KLINES - 1, MAX_PRICES - 1, MAX_PRICES, MAX_PRICES + 1}

InitWindow ==
    /\ live = NewLive(R(DefaultBalance))
    /\ feed = << >>
    /\ obs = [op |-> "new", closed |-> 0]
    /\ bt = Idle
    /\ core = Idle
    /\ okOps = << >>

\* startLiveTrade; initializeHistoricalData returns n candles
WindowStarts ==
    /\ ~HasTrade(live, WindowTradeId)
    /\ \E sid \in LiveStrategyIds, n \in WindowHistoryLengths :
         /\ live' = StartLiveTrade(live, WindowTradeId, sid, History(n)).st
         /\ feed' = History(n)
    /\ obs' = [obs EXCEPT !.op = "start"]
    /\ UNCHANGED <<core, okOps, bt>>

\* a closed kline arrives, MESSAGE_WINDOW after the last message
WindowClosed ==
    /\ HasTrade(live, WindowTradeId)
    /\ obs.closed < MaxWindowCandles
    /\ \E c \in LiveCloses :
         /\ live' = OnMessage([live EXCEPT !.now = @ + MESSAGE_WINDOW],
                              live.websockets[WindowTradeId],
                              [kind |-> "kline", closed |-> TRUE,
                               candle |-> Candle(c, c, c)])
         /\ feed' = Append(feed, Candle(c, c, c))
    /\ obs' = [op |-> "closed", closed |-> obs.closed + 1]
    /\ UNCHANGED <<core, okOps, bt>>

NextWindow == WindowStarts \/ WindowClosed

SpecWindow == InitWindow /\ [][NextWindow]_vars

\* the last n elements of a sequence
LastOf(s, n) == SubSeq(s, Len(s) - n + 1, Len(s))

\* C30: after the start and after any closed klines the window holds at
\* most 100 candles, and they are the most recent candles the session was
\* given, in arrival order.
C30_WindowIsLastHundred ==
    HasTrade(live, WindowTradeId) =>
        LET klines == live.liveTrades[WindowTradeId].klines
        IN  /\ Len(klines) <= MAX_PRICES
            /\ klines = LastOf(feed, IF Len(feed) < MAX_PRICES THEN Len(feed) ELSE MAX_PRICES)

\* the connections of session t that are not closed
LiveSocketsOf(L, t) == {w \in SocketsOf(L, t) : L.sockets[w].state # "closed"}

\* the number of reconnects of session t that are pending: timers of
\* handleReconnection and sleeps of reconnectWebSocket
PendingReconnects(L, t) ==
    BagCardinality([tm \in {x \in BagToSet(L.timers) : x.trade = t} |-> L.timers[tm]])

\* C31: at any time a session has at most one connection that is not closed
\* and at most one pending reconnect.
C31_OneConnectionOneReconnect ==
    \A t \in TradeIds :
        /\ Cardinality(LiveSocketsOf(live, t)) <= 1
        /\ PendingReconnects(live, t) <= 1

(***************************************************************************)
(* SpecRetry: a session whose connection fails after the service has set   *)
(* up connections, up to the whole connection budget                       *)
(*                                                                         *)
(* All sessions are started in the same millisecond, so they share the     *)
(* tradeId, and before the failure.  The clock is not advanced: a pending  *)
(* timer fires at some point, and nothing these handlers decide depends on *)
(* the time.  obs.turn is the parity of the connection attempts reconnects *)
(* have made.                                                              *)
(***************************************************************************)
MaxRetryFailures == 1
RetryTradeId == TradeIdAt(0)

InitRetry ==
    /\ live = NewLive(R(DefaultBalance))
    /\ obs = [op |-> "new", nFailures |-> 0, turn |-> 0]
    /\ core = Idle
    /\ okOps = << >>
    /\ bt = Idle
    /\ feed = << >>

\* startLiveTrade on a history one candle short of MIN_KLINES
RetryStart ==
    /\ obs.nFailures = 0
    /\ Len(live.connectionAttempts) < MAX_CONNECTIONS
    /\ live' = StartLiveTrade(live, RetryTradeId, BudgetStrategyId,
                              History(MIN_KLINES - 1)).st
    /\ obs' = [obs EXCEPT !.op = "start"]
    /\ UNCHANGED <<core, okOps, bt, feed>>

\* the session's connection emits 'error'
RetryError ==
    /\ obs.nFailures < MaxRetryFailures
    /\ HasTrade(live, RetryTradeId)
    /\ LET w == live.websockets[RetryTradeId]
       IN  /\ live.sockets[w].state # "closed"
           /\ ~live.sockets[w].erred
           /\ live' = OnError(live, w)
    /\ obs' = [obs EXCEPT !.op = "error", !.nFailures = @ + 1]
    /\ UNCHANGED <<core, okOps, bt, feed>>

\* the session's connection emits 'close', alone or after its 'error'
RetryClose ==
    /\ HasTrade(live, RetryTradeId)
    /\ LET w == live.websockets[RetryTradeId]
       IN  /\ live.sockets[w].state # "closed"
           /\ live.sockets[w].erred \/ obs.nFailures < MaxRetryFailures
           /\ live' = OnClose(live, w)
           /\ obs' = [obs EXCEPT !.op = "close",
                                 !.nFailures = IF live.sockets[w].erred THEN @ ELSE @ + 1]
    /\ UNCHANGED <<core, okOps, bt, feed>>

\* a timer of handleReconnection fires: reconnectWebSocket up to its await
RetryTimerFires ==
    /\ \E tm \in BagToSet(live.timers) :
         /\ tm.kind = "reconnect"
         /\ live' = ReconnectWebSocket([live EXCEPT !.timers = @ (-) SetToBag({tm})],
                                       tm.trade)
    /\ obs' = [obs EXCEPT !.op = "reconnect"]
    /\ UNCHANGED <<core, okOps, bt, feed>>

\* the await of reconnectWebSocket ends: setupWebSocket, and on its throw
\* reconnectWebSocket again
RetrySleepEnds ==
    /\ \E tm \in BagToSet(live.timers) :
         /\ tm.kind = "sleep"
         /\ live' = ReconnectAfterSleep([live EXCEPT !.timers = @ (-) SetToBag({tm})],
                                        tm.trade)
    /\ obs' = [obs EXCEPT !.op = "connect", !.turn = 1 - @]
    /\ UNCHANGED <<core, okOps, bt, feed>>

NextRetry == RetryStart \/ RetryError \/ RetryClose \/ RetryTimerFires \/ RetrySleepEnds

SpecRetry == InitRetry /\ [][NextRetry]_vars

\* timers fire and awaits end
FairRetry == SpecRetry /\ WF_vars(RetryTimerFires) /\ WF_vars(RetrySleepEnds)

\* the session's current connection is up
Connected(L, t) ==
    /\ HasTrade(L, t)
    /\ L.websockets[t] # 0
    /\ L.sockets[L.websockets[t]].state = "open"
    /\ ~L.sockets[L.websockets[t]].erred

\* the session is running and its connection has failed
Lost(L, t) == HasTrade(L, t) /\ L.liveTrades[t].status = "running" /\ ~Connected(L, t)

\* C32: a running session that has lost its connection eventually has a
\* connection again or is stopped.
C32_LostSessionReconnectsOrStops ==
    Lost(live, RetryTradeId) ~>
        (Connected(live, RetryTradeId) \/ ~Running(live, RetryTradeId))

MaxHeartbeatTicks == 5
MaxHeartbeats == 2
MaxHeartbeatFailures == 1
HeartbeatTickMs == 5 * 60 * 1000
IDLE_TIMEOUT == 10 * 60 * 1000
HeartbeatTradeId == CHOOSE t \in TradeIds : TRUE
NoTimeout == [armed |-> FALSE, due |-> 0]

HeartbeatKeepsTimer(H, w, now) == H

\* heartbeat(): clearTimeout(pingTimeout), then a new timer of 10 minutes
Heartbeat(H, w, now) ==
    [H EXCEPT !.pingTimeout[w] = [armed |-> TRUE, due |-> now + IDLE_TIMEOUT]]

\* clearTimeout(pingTimeout)
ClearPingTimeout(H, w) == [H EXCEPT !.pingTimeout[w] = NoTimeout]

\* the closure state of the connections setupWebSocket created in a step:
\* each ends setupWebSocket with heartbeat()
AfterSetups(H, LL) ==
    LET fresh == Len(LL.sockets) - Len(H.pingTimeout)
        H1 == [pingTimeout |-> H.pingTimeout \o [k \in 1..fresh |-> NoTimeout],
               pongs |-> H.pongs \o [k \in 1..fresh |-> 0]]
    IN  [H1 EXCEPT !.pingTimeout =
            [w \in 1..Len(LL.sockets) |->
                IF w > Len(H.pingTimeout) THEN Heartbeat(H1, w, LL.now).pingTimeout[w]
                ELSE H1.pingTimeout[w]]]

\* ws.on('ping'): ws.pong(data); heartbeat()
OnPing(H, w, now) == Heartbeat([H EXCEPT !.pongs[w] = @ + 1], w, now)

\* ws.on('pong', heartbeat)
OnPong(H, w, now) == Heartbeat(H, w, now)

\* the callback of pingTimeout: ws.terminate()
OnPingTimeout(L, w) ==
    [L EXCEPT !.sockets[w].state = IF @ = "closed" THEN @ ELSE "terminated"]

InitHeartbeat ==
    /\ live = NewLive(R(DefaultBalance))
    /\ bt = [pingTimeout |-> << >>, pongs |-> << >>]
    /\ obs = [op |-> "new", w |-> 0, ticks |-> 0, beats |-> 0, nFailures |-> 0]
    /\ core = Idle
    /\ okOps = << >>
    /\ feed = << >>

HeartbeatStart ==
    /\ ~HasTrade(live, HeartbeatTradeId)
    /\ LET LL == StartLiveTrade(live, HeartbeatTradeId, BudgetStrategyId,
                                History(MIN_KLINES - 1)).st
       IN  /\ live' = LL
           /\ bt' = AfterSetups(bt, LL)
           /\ obs' = [obs EXCEPT !.op = "start", !.w = Len(LL.sockets)]
    /\ UNCHANGED <<core, okOps, feed>>

PingArrives ==
    /\ obs.beats < MaxHeartbeats
    /\ \E w \in 1..Len(live.sockets) :
         /\ live.sockets[w].state = "open"
         /\ bt' = OnPing(bt, w, live.now)
         /\ obs' = [obs EXCEPT !.op = "ping", !.w = w, !.beats = @ + 1]
    /\ UNCHANGED <<core, okOps, live, feed>>

PongArrives ==
    /\ obs.beats < MaxHeartbeats
    /\ \E w \in 1..Len(live.sockets) :
         /\ live.sockets[w].state = "open"
         /\ bt' = OnPong(bt, w, live.now)
         /\ obs' = [obs EXCEPT !.op = "pong", !.w = w, !.beats = @ + 1]
    /\ UNCHANGED <<core, okOps, live, feed>>

\* a pending idle timer is due: its callback runs
PingTimeoutFires ==
    /\ \E w \in 1..Len(live.sockets) :
         /\ bt.pingTimeout[w].armed
         /\ bt.pingTimeout[w].due <= live.now
         /\ live' = OnPingTimeout(live, w)
         /\ bt' = ClearPingTimeout(bt, w)
         /\ obs' = [obs EXCEPT !.op = "timeout", !.w = w]
    /\ UNCHANGED <<core, okOps, feed>>

\* 'error' on an open connection
HeartbeatError ==
    /\ obs.nFailures < MaxHeartbeatFailures
    /\ \E w \in 1..Len(live.sockets) :
         /\ live.sockets[w].state = "open"
         /\ ~live.sockets[w].erred
         /\ live' = OnError(live, w)
         /\ bt' = ClearPingTimeout(bt, w)
         /\ obs' = [obs EXCEPT !.op = "error", !.w = w, !.nFailures = @ + 1]
    /\ UNCHANGED <<core, okOps, feed>>

\* 'close': the end of a terminate() or close(), or a failure of an open
\* connection
HeartbeatClose ==
    /\ \E w \in 1..Len(live.sockets) :
         /\ live.sockets[w].state # "closed"
         /\ live.sockets[w].state = "open" => obs.nFailures < MaxHeartbeatFailures
         /\ live' = OnClose(live, w)
         /\ bt' = ClearPingTimeout(bt, w)
         /\ obs' = [obs EXCEPT !.op = "close", !.w = w,
                               !.nFailures = IF live.sockets[w].state = "open"
                                             THEN @ + 1 ELSE @]
    /\ UNCHANGED <<core, okOps, feed>>

HeartbeatStop ==
    /\ Running(live, HeartbeatTradeId)
    /\ live' = StopLiveTrade(live, HeartbeatTradeId).st
    /\ obs' = [obs EXCEPT !.op = "stop", !.w = 0]
    /\ UNCHANGED <<core, okOps, bt, feed>>

\* a timer of handleReconnection or the await of reconnectWebSocket is due
HeartbeatReconnects ==
    /\ \E tm \in BagToSet(live.timers) :
         /\ tm.due <= live.now
         /\ LET L1 == [live EXCEPT !.timers = @ (-) SetToBag({tm})]
                LL == IF tm.kind = "reconnect" THEN ReconnectWebSocket(L1, tm.trade)
                      ELSE ReconnectAfterSleep(L1, tm.trade)
            IN  /\ live' = LL
                /\ bt' = AfterSetups(bt, LL)
                /\ obs' = [obs EXCEPT !.op = "reconnect", !.w = Len(LL.sockets)]
    /\ UNCHANGED <<core, okOps, feed>>

\* the times at which a pending timer is due
PendingDues ==
    {tm.due : tm \in BagToSet(live.timers)} \cup
    {bt.pingTimeout[w].due : w \in {x \in 1..Len(live.sockets) : bt.pingTimeout[x].armed}}

TimePasses ==
    /\ obs.ticks < MaxHeartbeatTicks
    /\ HasTrade(live, HeartbeatTradeId)
    /\ \A d \in PendingDues : d > live.now
    /\ LET step == live.now + HeartbeatTickMs
           next == IF \E d \in PendingDues : d < step
                   THEN CHOOSE d \in PendingDues : \A e \in PendingDues : d <= e
                   ELSE step
       IN  live' = [live EXCEPT !.now = next]
    /\ obs' = [obs EXCEPT !.op = "tick", !.w = 0, !.ticks = @ + 1]
    /\ UNCHANGED <<core, okOps, bt, feed>>

NextHeartbeat ==
    \/ HeartbeatStart \/ PingArrives \/ PongArrives \/ PingTimeoutFires
    \/ HeartbeatError \/ HeartbeatClose \/ HeartbeatStop \/ HeartbeatReconnects
    \/ TimePasses

SpecHeartbeat == InitHeartbeat /\ [][NextHeartbeat]_vars

\* C34: a ping is answered by a pong and restarts the 10-minute idle timer,
\* a pong restarts it too; an idle timer that expires terminates the
\* connection, and never earlier than 10 minutes after the last restart;
\* the 'close' of a terminated connection of a running session schedules a
\* reconnect.
C34_HeartbeatKeepsOrTerminates ==
    [][/\ obs'.op = "ping"
            => /\ bt'.pongs[obs'.w] = bt.pongs[obs'.w] + 1
               /\ bt'.pingTimeout[obs'.w] = [armed |-> TRUE, due |-> live.now + IDLE_TIMEOUT]
       /\ obs'.op = "pong"
            => bt'.pingTimeout[obs'.w] = [armed |-> TRUE, due |-> live.now + IDLE_TIMEOUT]
       /\ obs'.op = "timeout"
            => /\ live.now = bt.pingTimeout[obs'.w].due
               /\ live'.sockets[obs'.w].state \in {"terminated", "closed"}
               /\ live.sockets[obs'.w].state # "closed"
       /\ (/\ obs'.op = "close"
           /\ live.sockets[obs'.w].state = "terminated"
           /\ Running(live, live.sockets[obs'.w].trade))
            => PendingReconnects(live', live.sockets[obs'.w].trade) =
                   PendingReconnects(live, live.sockets[obs'.w].trade) + 1]_vars

\* a connection that answered a ping after five minutes was terminated ten
\* minutes later, and its 'close' has scheduled a reconnect of the running
\* session
C34_Witness ==
    /\ obs.op = "close"
    /\ obs.w > 0
    /\ bt.pongs[obs.w] >= 1
    /\ live.now = HeartbeatTickMs + IDLE_TIMEOUT
    /\ live.sockets[obs.w].state = "closed"
    /\ Running(live, HeartbeatTradeId)
    /\ PendingReconnects(live, HeartbeatTradeId) = 1
    /\ obs.nFailures = 0

(***************************************************************************)
(* SpecMalformed: one session receiving klines and malformed messages      *)
(*                                                                         *)
(* obs is the last message, its kind and what the handler threw to its     *)
(* caller ("none": nothing).                                               *)
(***************************************************************************)
MaxMalformedMessages == 3
MalformedTradeId == CHOOSE t \in TradeIds : TRUE

\* data that JSON.parse rejects, and a JSON object without a data field
MalformedMessages == {[kind |-> "unparsable"], [kind |-> "nodata"]}

\* the try block of the 'message' handler
TryMessage(L, w, msg) ==
    LET t == L.sockets[w].trade
        L0 == RecordMessage(L, t)
    IN  IF IsRateLimited(L, t) THEN Ok(L)
        ELSE IF msg.kind = "unparsable" THEN Throw(L0, "SyntaxError")
        ELSE IF msg.kind = "ack" THEN Ok(L0)
        ELSE IF msg.kind = "nodata" THEN Ok(L0)
        ELSE Ok(OnMessage(L, w, msg))

CatchMessageRethrows(r) == r

\* its catch block: console.error, nothing else
CatchMessage(r) == [st |-> r.st, err |-> "none"]

\* the 'message' handler
HandleMessage(L, w, msg) == CatchMessage(TryMessage(L, w, msg))

InitMalformed ==
    /\ live = NewLive(R(DefaultBalance))
    /\ obs = [op |-> "new", kind |-> "none", err |-> "none", n |-> 0]
    /\ core = Idle
    /\ okOps = << >>
    /\ bt = Idle
    /\ feed = << >>

MalformedStart ==
    /\ ~HasTrade(live, MalformedTradeId)
    /\ \E sid \in LiveStrategyIds, n \in HistoryLengths :
         live' = StartLiveTrade(live, MalformedTradeId, sid, History(n)).st
    /\ obs' = [obs EXCEPT !.op = "start"]
    /\ UNCHANGED <<core, okOps, bt, feed>>

MessageArrives ==
    /\ HasTrade(live, MalformedTradeId)
    /\ obs.n < MaxMalformedMessages
    /\ \E msg \in Messages \cup MalformedMessages :
         LET r == HandleMessage(live, live.websockets[MalformedTradeId], msg)
         IN  /\ live' = r.st
             /\ obs' = [op |-> "message", kind |-> msg.kind, err |-> r.err,
                        n |-> obs.n + 1]
    /\ UNCHANGED <<core, okOps, bt, feed>>

NextMalformed == MalformedStart \/ MessageArrives

SpecMalformed == InitMalformed /\ [][NextMalformed]_vars

\* C35: a message that cannot be parsed or has no data field is ignored:
\* the handler throws nothing, the session stays running with its
\* connection open, and its candle window, its indicators and the ledger are
\* unchanged.
C35_MalformedMessageIsIgnored ==
    [][(obs'.op = "message" /\ obs'.kind \in {"unparsable", "nodata"})
         => /\ obs'.err = "none"
            /\ live'.liveTrades[MalformedTradeId].status = "running"
            /\ live'.sockets = live.sockets
            /\ live'.websockets = live.websockets
            /\ live'.timers = live.timers
            /\ WithoutIndicators(live'.liveTrades[MalformedTradeId]) =
                   WithoutIndicators(live.liveTrades[MalformedTradeId])
            /\ live'.liveTrades[MalformedTradeId].currentIndicators =
                   live.liveTrades[MalformedTradeId].currentIndicators
            /\ live'.ledger = live.ledger]_vars

\* unparsable data has reached a running session that holds a position
C35_Witness ==
    /\ obs.op = "message"
    /\ obs.kind = "unparsable"
    /\ obs.err = "none"
    /\ Running(live, MalformedTradeId)
    /\ live.ledger.position.inPosition
    /\ live.sockets[live.websockets[MalformedTradeId]].state = "open"

(***************************************************************************)
(* SpecSignals: the entry and exit signals of both drive loops for         *)
(* strategies with one or two conditions each, some of them on an          *)
(* indicator or a target indicator that the strategy does not declare      *)
(***************************************************************************)
MaxSignalConditions == 2

SignalConditions ==
    {Cond("sma", "below", 101), Cond("price", "above", 99),
     Cond("rsi", "below", 30), CondOn("price", "above", "ema")}

SignalSequences == UNION {[1..n -> SignalConditions] : n \in 1..MaxSignalConditions}

SignalStrategy(entry, exit) ==
    [id |-> "signal", period |-> 1,
     entryConditions |-> entry,
     exitConditions  |-> exit,
     riskManagement  |-> Risk]

InitSignals ==
    /\ \E entry \in SignalSequences, exit \in SignalSequences, c \in CmpPrices :
         feed = [strategy |-> SignalStrategy(entry, exit),
                 candles |-> History(MinBacktestCandles) \o << Candle(c, c, c) >>]
    /\ obs = [op |-> "new"]
    /\ bt = Idle
    /\ live = Idle
    /\ core = Idle
    /\ okOps = << >>

\* the last candle is evaluated: by checkEntryConditions and
\* checkExitConditions on the context of its index, and by the every and
\* some of processTradeLogic on the readings of the window ending with it
\* (for the exit with a position entered at the candle's close, so that
\* neither stop-loss nor take-profit applies)
SignalsEvaluate ==
    /\ obs.op = "new"
    /\ LET strategy == feed.strategy
           i == Len(feed.candles) - 1
           candle == feed.candles[i + 1]
           context == CreateIndicatorContext(i, CalculateIndicatorSeries(feed.candles, strategy),
                                             candle)
           cur == CalculateIndicators(feed.candles, strategy).st
           prev == CalculateIndicators(SubSeq(feed.candles, 1, i), strategy).st
           position == [FlatPosition EXCEPT !.inPosition = TRUE,
                                            !.entryPrice = R(candle.close),
                                            !.quantity = R(1)]
       IN  obs' = [op |-> "evaluate",
                   context |-> context,
                   cur |-> cur,
                   prev |-> prev,
                   backtestEntry |-> CheckEntryConditions(strategy.entryConditions, context),
                   backtestExit |-> CheckExitConditions(strategy.exitConditions, context),
                   liveEntry |-> ShouldEnter(strategy, cur, prev),
                   liveExit |-> ShouldExit(position, R(candle.close), strategy, cur, prev)]
    /\ UNCHANGED <<core, okOps, live, bt, feed>>

NextSignals == SignalsEvaluate

SpecSignals == InitSignals /\ [][NextSignals]_vars

\* a condition whose indicator or target indicator has no value in the
\* reading
Unresolved(condition, reading) ==
    \/ ~IsDef(GetIndicatorValue(condition.indicator, reading))
    \/ condition.targetIndicator # "none"
         /\ ~IsDef(GetIndicatorValue(condition.targetIndicator, reading))

\* C36: in both loops the entry signal is the conjunction of the entry
\* conditions and the condition-based exit signal the disjunction of the
\* exit conditions; a condition with an unresolved indicator or target is
\* false.
C36_EntryAllExitAny ==
    obs.op = "evaluate" =>
        LET entry == feed.strategy.entryConditions
            exit == feed.strategy.exitConditions
        IN  /\ obs.backtestEntry =
                 (\A k \in 1..Len(entry) : BacktestConditionHolds(entry[k], obs.context))
            /\ obs.liveEntry =
                 (\A k \in 1..Len(entry) : ConditionHolds(entry[k], obs.cur, obs.prev))
            /\ obs.backtestExit =
                 (\E k \in 1..Len(exit) : BacktestConditionHolds(exit[k], obs.context))
            /\ obs.liveExit =
                 (\E k \in 1..Len(exit) : ConditionHolds(exit[k], obs.cur, obs.prev))
            /\ \A k \in 1..Len(entry) :
                 /\ Unresolved(entry[k], obs.context)
                      => ~BacktestConditionHolds(entry[k], obs.context)
                 /\ Unresolved(entry[k], obs.cur)
                      => ~ConditionHolds(entry[k], obs.cur, obs.prev)
            /\ (\E k \in 1..Len(entry) : Unresolved(entry[k], obs.cur))
                 => (~obs.backtestEntry /\ ~obs.liveEntry)
            /\ (\A k \in 1..Len(exit) : Unresolved(exit[k], obs.cur))
                 => (~obs.backtestExit /\ ~obs.liveExit)

\* one of two exit conditions holds and the other is unresolved: both loops
\* signal the exit; one of two entry conditions holds and the other does
\* not: neither loop signals the entry
C36_Witness ==
    /\ obs.op = "evaluate"
    /\ Len(feed.strategy.exitConditions) = 2
    /\ ConditionHolds(feed.strategy.exitConditions[1], obs.cur, obs.prev)
    /\ Unresolved(feed.strategy.exitConditions[2], obs.cur)
    /\ obs.backtestExit
    /\ obs.liveExit
    /\ Len(feed.strategy.entryConditions) = 2
    /\ ConditionHolds(feed.strategy.entryConditions[1], obs.cur, obs.prev)
    /\ ~ConditionHolds(feed.strategy.entryConditions[2], obs.cur, obs.prev)
    /\ ~Unresolved(feed.strategy.entryConditions[2], obs.cur)
    /\ ~obs.backtestEntry
    /\ ~obs.liveEntry

(***************************************************************************)
(* SpecAlign: the loop of runBacktest builds the context of each candle    *)
(* after the first 50, for a declared SMA of period 1, 2 or 3              *)
(***************************************************************************)
MaxAlignTail == 3
AlignPeriods == {1, 2, 3}

AlignTails == UNION {[1..n -> {Candle(c, c, c) : c \in CmpPrices}] : n \in 1..MaxAlignTail}

\* the warm-up length of calculateSMA: its first value is the one of candle
\* period - 1
SmaOffset(period) == period - 1

InitAlign ==
    /\ \E period \in AlignPeriods, tail \in AlignTails :
         feed = [strategy |-> [id |-> "align", period |-> period],
                 candles |-> History(MinBacktestCandles) \o tail]
    /\ bt = [i |-> FirstLoopIndex]
    /\ obs = [op |-> "new"]
    /\ live = Idle
    /\ core = Idle
    /\ okOps = << >>

\* one iteration of the loop, up to the context it evaluates conditions with
AlignCandle ==
    /\ bt.i < Len(feed.candles)
    /\ LET series == CalculateIndicatorSeries(feed.candles, feed.strategy)
           context == CreateIndicatorContext(bt.i, series, feed.candles[bt.i + 1])
       IN  obs' = [op |-> "context", i |-> bt.i, sma |-> context.sma]
    /\ bt' = [bt EXCEPT !.i = @ + 1]
    /\ UNCHANGED <<core, okOps, live, feed>>

NextAlign == AlignCandle

SpecAlign == InitAlign /\ [][NextAlign]_vars

\* the SMA of candle c (from 0): the mean of the period closes ending with it
SmaOfCandle(candles, c, period) ==
    RDiv(R(SumCloses(candles, c - period + 2, c + 1)), R(period))

\* the reading that conditions at candle index c are evaluated with is the
\* one at series index c - offset, the value computed for candle c
ReadingIsOfItsCandle ==
    obs.op = "context" =>
        LET series == CalculateIndicatorSeries(feed.candles, feed.strategy).sma
            offset == SmaOffset(feed.strategy.period)
        IN  /\ obs.sma = series[obs.i - offset + 1]
            /\ obs.sma = SmaOfCandle(feed.candles, obs.i, feed.strategy.period)

\* the same where series index and candle index agree (period 1)
AlignedWithoutOffset ==
    (obs.op = "context" /\ feed.strategy.period = 1) =>
        obs.sma = SmaOfCandle(feed.candles, obs.i, feed.strategy.period)

\* the first candle of the loop is max(offset, 1)
LoopStartsAtOffset ==
    obs.op = "new" =>
        bt.i = IF SmaOffset(feed.strategy.period) > 1 THEN SmaOffset(feed.strategy.period) ELSE 1

\* C37: wherever the context of candle index c has a reading, that reading
\* is the value computed for candle c and derives from no candle after c.
C37_DefinedReadingIsOfItsCandle ==
    (obs.op = "context" /\ IsDef(obs.sma)) =>
        obs.sma = SmaOfCandle(feed.candles, obs.i, feed.strategy.period)

(***************************************************************************)
(* Equity and drawdown curves                                              *)
(***************************************************************************)
\* message msg on connection w is a closed candle that the handler passes to
\* processTradeLogic
ProcessesClosedCandle(L, w, msg) ==
    LET t == L.sockets[w].trade
    IN  /\ L.sockets[w].state # "closed"
        /\ msg.kind = "kline"
        /\ msg.closed
        /\ ~IsRateLimited(L, t)
        /\ L.liveTrades[t].status = "running"
        /\ Len(L.liveTrades[t].klines) + 1 >= MIN_KLINES

\* C38: every live closed-candle event that is processed appends exactly one
\* equity point and one drawdown point to the curves of the ledger.
C38_LiveCandleAppendsEquity ==
    [][\A w \in 1..Len(live.sockets), msg \in Messages :
          (/\ ProcessesClosedCandle(live, w, msg)
           /\ obs'.op = "message"
           /\ live' = OnMessage(live, w, msg))
          => /\ Len(live'.ledger.equity) = Len(live.ledger.equity) + 1
             /\ Len(live'.ledger.drawdowns) = Len(live.ledger.drawdowns) + 1]_vars

\* the curves of the ledger have equal length and every drawdown is
\* (running peak - equity) / peak * 100 and is not negative
CurvesAgree(c) ==
    /\ Len(c.equity) = Len(c.drawdowns)
    /\ \A k \in 2..Len(c.equity) :
         LET peak == MaxOf(c.equity, k)
         IN  /\ c.drawdowns[k] = RMul(RDiv(RSub(peak, c.equity[k]), peak), R(100))
             /\ RGe(c.drawdowns[k], R(0))

\* every iteration of the backtest loop appends one point to each curve
BacktestCandleAppendsEquity ==
    bt.phase = "loop" =>
        /\ Len(bt.core.equity) = 1 + (bt.i - FirstLoopIndex)
        /\ CurvesAgree(bt.core)

(***************************************************************************)
(* Messages the rate limiter drops                                         *)
(***************************************************************************)
\* C39: a message that arrives while its session is rate-limited leaves the
\* whole service as it was: the rate-limit history, the candle window, the
\* indicators and the ledger; a closed candle among them is not processed.
C39_DroppedMessageChangesNothing ==
    \A w \in 1..Len(live.sockets), msg \in Messages :
        (live.sockets[w].state = "open" /\ IsRateLimited(live, live.sockets[w].trade))
        => LET t == live.sockets[w].trade
               LL == OnMessage(live, w, msg)
           IN  /\ LL.messageRateLimiter[t] = live.messageRateLimiter[t]
               /\ LL.liveTrades[t] = live.liveTrades[t]
               /\ LL.ledger = live.ledger
               /\ LL = live

\* a message has just been dropped and the session is still limited: the
\* session is running and one candle short of the window that a closed
\* candle would make processTradeLogic run on
C39_Witness ==
    /\ obs.op = "message"
    /\ Len(obs.arrivals) > 0
    /\ ~obs.arrivals[Len(obs.arrivals)].accepted
    /\ IsRateLimited(live, RateTradeId)
    /\ live.liveTrades[RateTradeId].status = "running"
    /\ Len(live.liveTrades[RateTradeId].klines) = MIN_KLINES - 1
    /\ \E w \in 1..Len(live.sockets), msg \in Messages :
         /\ live.sockets[w].state = "open"
         /\ msg.kind = "kline"
         /\ msg.closed
         /\ OnMessage(live, w, msg) = live

(***************************************************************************)
(* SpecTimes: entries and exits on a TradingCore, candle after candle;     *)
(* the timestamp of a call is the time of the current candle               *)
(***************************************************************************)
MaxTimeCandles == 4
MaxTimeCalls == 4
\* the open time of the k-th one-minute candle
CandleTime(k) == 60000 * k

InitTimes ==
    /\ core = NewCore(R(DefaultBalance))
    /\ obs = [op |-> "new", candle |-> 1, n |-> 0, entries |-> << >>, exits |-> << >>]
    /\ okOps = << >>
    /\ live = Idle
    /\ bt = Idle
    /\ feed = << >>

\* executeEntry(time of the current candle, p, q); entries keeps the
\* timestamps of the calls that opened a position
TimedEntry ==
    /\ obs.n < MaxTimeCalls
    /\ \E p \in LedgerPrices, q \in LedgerQuantities :
         LET r == ExecuteEntry(core, CandleTime(obs.candle), R(p), R(q))
         IN  /\ core' = r.st
             /\ obs' = [obs EXCEPT !.op = "executeEntry", !.n = @ + 1,
                                   !.entries = IF r.err = "none"
                                               THEN Append(@, CandleTime(obs.candle))
                                               ELSE @]
    /\ UNCHANGED <<okOps, live, bt, feed>>

\* executeExit(time of the current candle, p); exits keeps the timestamps
\* of the calls that closed a position
TimedExit ==
    /\ obs.n < MaxTimeCalls
    /\ \E p \in LedgerPrices :
         LET r == ExecuteExit(core, CandleTime(obs.candle), R(p))
         IN  /\ core' = r.st
             /\ obs' = [obs EXCEPT !.op = "executeExit", !.n = @ + 1,
                                   !.exits = IF r.err = "none"
                                             THEN Append(@, CandleTime(obs.candle))
                                             ELSE @]
    /\ UNCHANGED <<okOps, live, bt, feed>>

\* the next candle
CandlePasses ==
    /\ obs.candle < MaxTimeCandles
    /\ obs' = [obs EXCEPT !.op = "candle", !.candle = @ + 1]
    /\ UNCHANGED <<core, okOps, live, bt, feed>>

NextTimes == TimedEntry \/ TimedExit \/ CandlePasses

SpecTimes == InitTimes /\ [][NextTimes]_vars

\* C40: the k-th closed trade has the timestamp of the k-th entry as its
\* entryTime and the timestamp of the k-th exit as its exitTime, so
\* entryTime <= exitTime, and the two differ when entry and exit were made
\* on different candles.
C40_TradeRecordsEntryTime ==
    \A k \in 1..Len(core.trades) :
        /\ core.trades[k].entryTime = obs.entries[k]
        /\ core.trades[k].exitTime = obs.exits[k]
        /\ core.trades[k].entryTime <= core.trades[k].exitTime
        /\ obs.entries[k] # obs.exits[k] => core.trades[k].entryTime # core.trades[k].exitTime

\* what does hold: the exit time is the timestamp of the exit, and the
\* entry time is not after it
TradeRecordsExitTime ==
    \A k \in 1..Len(core.trades) :
        /\ core.trades[k].exitTime = obs.exits[k]
        /\ core.trades[k].entryTime <= core.trades[k].exitTime

=============================================================================
